---- MODULE Spec2Model ----
(***************************************************************************)
(* Credential acquisition (google_auth.get_credentials) and the lazily     *)
(* built service-handle cache (lib.google_factory.GoogleServiceFactory).    *)
(*                                                                         *)
(* Python objects have identity: a credential object is an index into obj, *)
(* a service handle an index into handles.  0 stands for None.             *)
(* Access tokens are numbered as they are issued; the expiry instant of    *)
(* token n is instant n; tokens expire in the order they were issued, and  *)
(* clock is the last expiry instant that has passed.                       *)
(* A refresh token is the number of the grant it belongs to (0 for None);  *)
(* revoked holds the grants that have been revoked.                        *)
(*                                                                         *)
(* lib.gmail_client: the MIME codec (_decode_payload, send_message) and    *)
(* GmailClient.search, each under a specification of its own (SpecDecode,  *)
(* SpecSend, SpecSearch), and _parse_date (SpecDate).                      *)
(*                                                                         *)
(* lib.docs_client._extract_text (SpecDocs), the text extractors of        *)
(* lib.slides_client (SpecSlides), the resource parsers of the clients     *)
(* (SpecParse) and the fault handling of lib.keep_client.KeepClient        *)
(* (SpecKeep).                                                             *)
(***************************************************************************)
EXTENDS Integers, Sequences, FiniteSets, TLC

\* ---------------------------------------------------------------- bounds
NSites == 2        \* call sites (client objects) sharing the one factory
MaxCalls == 3      \* requests issued to the factory over a run

Sites == 1..NSites

\* ------------------------------------------------------------- constants
\* google_factory.py:40-57 (two of the scopes stand for the list)
ALL_SCOPES == {"calendar", "gmail.modify"}

\* google_factory.py:95-103: the (name, version) pairs of the properties
Apis == {<<"gmail", "v1">>, <<"calendar", "v3">>}

\* google_factory.py:86  key = f"{name}/{version}"
Key(name, version) == name \o "/" \o version

\* TOKEN_FILE is absent (os.path.exists is False), holds an authorized-user
\* record, or exists without a record in it (kind "corrupt").
NoFile ==
    [kind |-> "absent", token |-> 0, refresh_token |-> 0, expiry |-> 0,
     scopes |-> {}]
Corrupt ==
    [kind |-> "corrupt", token |-> 0, refresh_token |-> 0, expiry |-> 0,
     scopes |-> {}]

\* What a token file can hold: token is optional in the authorized-user
\* format, refresh_token may be null, scopes are those of the grant.
FileRecords ==
    [kind: {"record"}, token: {0, 1}, refresh_token: {0, 1}, expiry: {1},
     scopes: {ALL_SCOPES, {"calendar"}}]

VARIABLES
    constructed,   \* GoogleServiceFactory.__init__ has run
    scopes,        \* self._scopes
    creds,         \* self._creds: a credential object, 0 for None
    services,      \* self._services: key -> handle
    obj,           \* the credential objects, by identity
    handles,       \* the service handles built, by identity
    tokenFile,     \* TOKEN_FILE: NoFile, Corrupt or a record
    clock,         \* the expiry instants up to this one have passed
    revoked,       \* the grants that have been revoked
    nextTok,       \* the last access token issued
    pc,            \* per site: where its call stands
    key,           \* per site: the key requested ("" for .credentials)
    lcreds,        \* per site: the local `creds` / the value read at line 80
    did,           \* per site: what get_credentials performed in this call
    fault,         \* per site: the exception its call ended with
    result,        \* per site: the object its call returned
    calls,         \* requests issued so far
    acquireCalls,  \* invocations of get_credentials
    ioReads,       \* reads of TOKEN_FILE
    ioWrites,      \* completed writes of TOKEN_FILE
    faulted,       \* some call has raised
    mpc,           \* GmailClient: where the operation under way stands
    args,          \* GmailClient: the arguments (or API response) it works on
    locals,        \* GmailClient: the locals of the operation under way
    returned       \* GmailClient: the value returned, or the exception raised

authVars == <<constructed, scopes, creds, services, obj, handles, tokenFile,
              clock, revoked, nextTok, pc, key, lcreds, did, fault, result,
              calls, acquireCalls, ioReads, ioWrites, faulted>>
mailVars == <<mpc, args, locals, returned>>
vars == <<authVars, mailVars>>

factoryVars == <<constructed, scopes, creds, services>>
worldVars == <<tokenFile, clock, revoked, nextTok>>
countVars == <<calls, acquireCalls, ioReads, ioWrites>>

\* --------------------------------------------------- credential library
\* google.oauth2.credentials.Credentials as get_credentials uses it.
Expired(c) == c.expiry <= clock
Valid(c) == c.token # 0 /\ ~Expired(c)

\* Credentials.from_authorized_user_file(TOKEN_FILE, scopes): the scopes
\* argument, not the file's, becomes the credential's scopes.
FromAuthorizedUserFile(f, sc) ==
    [token |-> f.token, refresh |-> f.refresh_token, expiry |-> f.expiry,
     scopes |-> sc]

\* creds.to_json(), as written to TOKEN_FILE
ToJson(c) ==
    [kind |-> "record", token |-> c.token, refresh_token |-> c.refresh, expiry |-> c.expiry,
     scopes |-> c.scopes]

Rest == {"idle", "done", "failed"}
InCall(t) == pc[t] \notin Rest

\* An exception leaves the call: its frames, and their locals, are gone.
Raise(t, e) ==
    /\ pc' = [pc EXCEPT ![t] = "failed"]
    /\ fault' = [fault EXCEPT ![t] = e]
    /\ lcreds' = [lcreds EXCEPT ![t] = 0]
    /\ did' = [did EXCEPT ![t] = "none"]
    /\ faulted' = TRUE

\* ------------------------------------------------------------------ Init
\* No GmailClient operation is under way.
MailAtRest ==
    /\ mpc = "off"
    /\ args = <<>>
    /\ locals = <<>>
    /\ returned = <<>>

\* No request has reached the factory.
AuthInit ==
    /\ constructed = FALSE
    /\ scopes = {}
    /\ creds = 0
    /\ services = <<>>
    /\ obj = <<>>
    /\ handles = <<>>
    /\ tokenFile \in {NoFile} \cup FileRecords
    /\ clock = 0
    /\ revoked = {}
    /\ nextTok = 1
    /\ pc = [t \in Sites |-> "idle"]
    /\ key = [t \in Sites |-> ""]
    /\ lcreds = [t \in Sites |-> 0]
    /\ did = [t \in Sites |-> "none"]
    /\ fault = [t \in Sites |-> "none"]
    /\ result = [t \in Sites |-> 0]
    /\ calls = 0
    /\ acquireCalls = 0
    /\ ioReads = 0
    /\ ioWrites = 0
    /\ faulted = FALSE

Init == AuthInit /\ MailAtRest

\* ------------------------------------------------- GoogleServiceFactory
\* (a constructor that acquires the credential eagerly)
FactoryInit_Eager(arg) ==
    /\ ~constructed
    /\ constructed' = TRUE
    /\ scopes' = IF arg = {} THEN ALL_SCOPES ELSE arg
    /\ acquireCalls' = acquireCalls + 1
    /\ obj' = Append(obj, [token |-> nextTok + 1, refresh |-> nextTok + 1,
                           expiry |-> nextTok + 1, scopes |-> scopes'])
    /\ nextTok' = nextTok + 1
    /\ creds' = Len(obj) + 1
    /\ services' = <<>>
    /\ UNCHANGED <<handles, tokenFile, clock, revoked, pc, key, lcreds, did,
                   fault, result, calls, ioReads, ioWrites, faulted>>
    /\ UNCHANGED mailVars

\* __init__(scopes): scopes or ALL_SCOPES; no credential, no handle.
FactoryInit(arg) ==
    /\ ~constructed
    /\ constructed' = TRUE
    /\ scopes' = IF arg = {} THEN ALL_SCOPES ELSE arg
    /\ creds' = 0
    /\ services' = <<>>
    /\ UNCHANGED <<obj, handles, worldVars, pc, key, lcreds, did, fault,
                   result, countVars, faulted>>
    /\ UNCHANGED mailVars

Begin(t, k, at) ==
    /\ constructed
    /\ ~InCall(t)
    /\ calls < MaxCalls
    /\ calls' = calls + 1
    /\ pc' = [pc EXCEPT ![t] = at]
    /\ key' = [key EXCEPT ![t] = k]
    /\ lcreds' = [lcreds EXCEPT ![t] = 0]
    /\ did' = [did EXCEPT ![t] = "none"]
    /\ fault' = [fault EXCEPT ![t] = "none"]
    /\ result' = [result EXCEPT ![t] = 0]
    /\ UNCHANGED <<factoryVars, obj, handles, worldVars, acquireCalls,
                   ioReads, ioWrites, faulted>>
    /\ UNCHANGED mailVars

\* a service property (factory.gmail, ...): self._build(name, version)
RequestBuild(t, api) == Begin(t, Key(api[1], api[2]), "build")

\* factory.credentials read directly (reauth.py:22)
RequestCredentials(t) == Begin(t, "", "creds")

\* (a lookup that never hits)
Cached_Never(k) == FALSE

\* _build, line 87: if key not in self._services
Cached(k) == k \in DOMAIN services

BuildCheck(t) ==
    /\ pc[t] = "build"
    /\ pc' = [pc EXCEPT ![t] = IF Cached(key[t]) THEN "hit" ELSE "creds"]
    /\ UNCHANGED <<factoryVars, obj, handles, worldVars, key, lcreds, did,
                   fault, result, countVars, faulted>>
    /\ UNCHANGED mailVars

\* (a property that acquires on every read)
MustAcquire_Always == TRUE

\* credentials, line 78: if self._creds is None or not self._creds.valid
MustAcquire == creds = 0 \/ ~Valid(obj[creds])

CredsCheck(t) ==
    /\ pc[t] = "creds"
    /\ IF MustAcquire
         THEN /\ pc' = [pc EXCEPT ![t] = "gc_load"]
              /\ acquireCalls' = acquireCalls + 1
         ELSE /\ pc' = [pc EXCEPT ![t] = "creds_ret"]
              /\ UNCHANGED acquireCalls
    /\ UNCHANGED <<factoryVars, obj, handles, worldVars, key, lcreds, did,
                   fault, result, calls, ioReads, ioWrites, faulted>>
    /\ UNCHANGED mailVars

\* ------------------------------------------------------- get_credentials
\* (every loaded credential taken for unusable)
NeedsWork_Always(c) == TRUE

\* line 36: if not creds or not creds.valid
NeedsWork(c) == c = 0 \/ ~Valid(obj[c])
\* line 37: if creds and creds.expired and creds.refresh_token
CanRefresh(c) == c # 0 /\ Expired(obj[c]) /\ obj[c].refresh # 0

\* lines 31-34: load the persisted credential when the file exists.  A file
\* that holds no record makes from_authorized_user_file raise.
GcLoad(t) ==
    /\ pc[t] = "gc_load"
    /\ \/ /\ tokenFile = NoFile
          /\ lcreds' = [lcreds EXCEPT ![t] = 0]
          /\ pc' = [pc EXCEPT ![t] = "gc_branch"]
          /\ UNCHANGED <<obj, ioReads, fault, faulted, did>>
       \/ /\ tokenFile.kind = "record"
          /\ obj' = Append(obj, FromAuthorizedUserFile(tokenFile, scopes))
          /\ lcreds' = [lcreds EXCEPT ![t] = Len(obj) + 1]
          /\ ioReads' = ioReads + 1
          /\ pc' = [pc EXCEPT ![t] = "gc_branch"]
          /\ UNCHANGED <<fault, faulted, did>>
       \/ /\ tokenFile = Corrupt
          /\ ioReads' = ioReads + 1
          /\ Raise(t, "ValueError")
          /\ UNCHANGED obj
    /\ UNCHANGED <<factoryVars, handles, worldVars, key, result,
                   calls, acquireCalls, ioWrites>>
    /\ UNCHANGED mailVars

\* lines 36-40: the path taken
GcBranch(t) ==
    /\ pc[t] = "gc_branch"
    /\ pc' = [pc EXCEPT ![t] =
                IF NeedsWork(lcreds[t])
                  THEN IF CanRefresh(lcreds[t]) THEN "gc_refresh" ELSE "gc_flow"
                  ELSE "gc_ret"]
    /\ UNCHANGED <<factoryVars, obj, handles, worldVars, key, lcreds, did,
                   fault, result, countVars, faulted>>
    /\ UNCHANGED mailVars

\* line 38: creds.refresh(Request()) updates the loaded object in place, or
\* raises: RefreshError when the grant is revoked, a transport error otherwise.
GcRefresh(t) ==
    /\ pc[t] = "gc_refresh"
    /\ \/ /\ obj[lcreds[t]].refresh \notin revoked
          /\ nextTok' = nextTok + 1
          /\ obj' = [obj EXCEPT ![lcreds[t]].token = nextTok + 1,
                                ![lcreds[t]].expiry = nextTok + 1]
          /\ did' = [did EXCEPT ![t] = "refresh"]
          /\ pc' = [pc EXCEPT ![t] = "gc_write"]
          /\ UNCHANGED <<fault, faulted, lcreds>>
       \/ /\ Raise(t, IF obj[lcreds[t]].refresh \in revoked
                         THEN "RefreshError" ELSE "TransportError")
          /\ UNCHANGED <<nextTok, obj>>
    /\ UNCHANGED <<factoryVars, handles, tokenFile, clock, revoked, key,
                   result, countVars>>
    /\ UNCHANGED mailVars

\* lines 41-42: the interactive consent flow returns a new credential object
\* (with or without a refresh token) under a new grant, or fails.
GcFlow(t) ==
    /\ pc[t] = "gc_flow"
    /\ \/ /\ \E r \in {0, nextTok + 1} :
                obj' = Append(obj, [token |-> nextTok + 1, refresh |-> r,
                                    expiry |-> nextTok + 1, scopes |-> scopes])
          /\ nextTok' = nextTok + 1
          /\ lcreds' = [lcreds EXCEPT ![t] = Len(obj) + 1]
          /\ did' = [did EXCEPT ![t] = "flow"]
          /\ pc' = [pc EXCEPT ![t] = "gc_write"]
          /\ UNCHANGED <<fault, faulted>>
       \/ /\ Raise(t, "FlowError")
          /\ UNCHANGED <<nextTok, obj>>
    /\ UNCHANGED <<factoryVars, handles, tokenFile, clock, revoked, key,
                   result, countVars>>
    /\ UNCHANGED mailVars

\* (the write placed inside the else branch: only a new grant is saved)
GcWrite_FlowOnly(t) ==
    /\ pc[t] = "gc_write"
    /\ \/ /\ tokenFile' = IF did[t] = "flow" THEN ToJson(obj[lcreds[t]])
                                              ELSE tokenFile
          /\ ioWrites' = IF did[t] = "flow" THEN ioWrites + 1 ELSE ioWrites
          /\ pc' = [pc EXCEPT ![t] = "gc_ret"]
          /\ UNCHANGED <<fault, faulted, lcreds, did>>
       \/ /\ did[t] = "flow"
          /\ tokenFile' \in {tokenFile, Corrupt}
          /\ Raise(t, "OSError")
          /\ UNCHANGED ioWrites
    /\ UNCHANGED <<factoryVars, obj, handles, clock, revoked, nextTok, key,
                   result, calls, acquireCalls, ioReads>>
    /\ UNCHANGED mailVars

\* lines 45-47: open(TOKEN_FILE, "w") and write creds.to_json().  A failure
\* raises OSError; the file is untouched when open fails and left without a
\* record when the write fails after the truncation.
GcWrite(t) ==
    /\ pc[t] = "gc_write"
    /\ \/ /\ tokenFile' = ToJson(obj[lcreds[t]])
          /\ ioWrites' = ioWrites + 1
          /\ pc' = [pc EXCEPT ![t] = "gc_ret"]
          /\ UNCHANGED <<fault, faulted, lcreds, did>>
       \/ /\ tokenFile' \in {tokenFile, Corrupt}
          /\ Raise(t, "OSError")
          /\ UNCHANGED ioWrites
    /\ UNCHANGED <<factoryVars, obj, handles, clock, revoked, nextTok, key,
                   result, calls, acquireCalls, ioReads>>
    /\ UNCHANGED mailVars

\* line 49 and google_factory.py line 79: return creds; self._creds = ...
GcReturn(t) ==
    /\ pc[t] = "gc_ret"
    /\ creds' = lcreds[t]
    /\ pc' = [pc EXCEPT ![t] = "creds_ret"]
    /\ UNCHANGED <<constructed, scopes, services, obj, handles, worldVars,
                   key, lcreds, did, fault, result, countVars, faulted>>
    /\ UNCHANGED mailVars

\* google_factory.py line 80: return self._creds, to the caller of the
\* property or into build(...) of line 88
CredsReturn(t) ==
    /\ pc[t] = "creds_ret"
    /\ IF key[t] = ""
         THEN /\ result' = [result EXCEPT ![t] = creds]
              /\ pc' = [pc EXCEPT ![t] = "done"]
              /\ lcreds' = [lcreds EXCEPT ![t] = 0]
         ELSE /\ lcreds' = [lcreds EXCEPT ![t] = creds]
              /\ pc' = [pc EXCEPT ![t] = "do_build"]
              /\ UNCHANGED result
    /\ did' = [did EXCEPT ![t] = "none"]
    /\ UNCHANGED <<factoryVars, obj, handles, worldVars, key, fault,
                   countVars, faulted>>
    /\ UNCHANGED mailVars

\* (the key stored before build(...) has returned: a failure leaves an entry)
DoBuild_StoreOnFailure(t) ==
    /\ pc[t] = "do_build"
    /\ \/ /\ handles' = Append(handles, [key |-> key[t], creds |-> lcreds[t]])
          /\ services' = (key[t] :> (Len(handles) + 1)) @@ services
          /\ lcreds' = [lcreds EXCEPT ![t] = 0]
          /\ pc' = [pc EXCEPT ![t] = "ret"]
          /\ UNCHANGED <<fault, faulted, did>>
       \/ /\ Raise(t, "BuildError")
          /\ services' = (key[t] :> 0) @@ services
          /\ UNCHANGED handles
    /\ UNCHANGED <<constructed, scopes, creds, obj, worldVars, key,
                   result, countVars>>
    /\ UNCHANGED mailVars

\* lines 88-90: build(name, version, credentials=...) makes a new handle bound
\* to the credential object passed, and the handle is stored under the key;
\* or build raises and nothing is stored.
DoBuild(t) ==
    /\ pc[t] = "do_build"
    /\ \/ /\ handles' = Append(handles, [key |-> key[t], creds |-> lcreds[t]])
          /\ services' = (key[t] :> (Len(handles) + 1)) @@ services
          /\ lcreds' = [lcreds EXCEPT ![t] = 0]
          /\ pc' = [pc EXCEPT ![t] = "ret"]
          /\ UNCHANGED <<fault, faulted, did>>
       \/ /\ Raise(t, "BuildError")
          /\ UNCHANGED <<handles, services>>
    /\ UNCHANGED <<constructed, scopes, creds, obj, worldVars, key,
                   result, countVars>>
    /\ UNCHANGED mailVars

\* line 91: return self._services[key], after a build ("ret") or when line 87
\* found the key ("hit")
BuildReturn(t) ==
    /\ pc[t] \in {"ret", "hit"}
    /\ result' = [result EXCEPT ![t] = services[key[t]]]
    /\ pc' = [pc EXCEPT ![t] = "done"]
    /\ UNCHANGED <<factoryVars, obj, handles, worldVars, key, lcreds, did,
                   fault, countVars, faulted>>
    /\ UNCHANGED mailVars

\* ----------------------------------------------------------- environment
\* The expiry instants some reachable credential or the file carries; the
\* others belong to garbage and nothing reads them.
LiveCreds ==
    ({creds} \cup {lcreds[t] : t \in Sites}
       \cup {handles[h].creds : h \in DOMAIN handles}) \ {0}
LiveInstants ==
    ({obj[c].expiry : c \in LiveCreds} \cup {tokenFile.expiry}) \ {0}

\* time passes the next expiry instant that something carries
Expire ==
    /\ \E e \in LiveInstants : e > clock
    /\ clock' = CHOOSE e \in LiveInstants :
                   e > clock /\ \A d \in LiveInstants : d > clock => e <= d
    /\ UNCHANGED <<factoryVars, obj, handles, tokenFile, revoked, nextTok,
                   pc, key, lcreds, did, fault, result, countVars, faulted>>
    /\ UNCHANGED mailVars

LiveGrants ==
    ({obj[c].refresh : c \in LiveCreds} \cup {tokenFile.refresh_token}) \ {0}

\* the user or the provider revokes a grant
Revoke(g) ==
    /\ g \in LiveGrants \ revoked
    /\ revoked' = revoked \cup {g}
    /\ UNCHANGED <<factoryVars, obj, handles, tokenFile, clock, nextTok,
                   pc, key, lcreds, did, fault, result, countVars, faulted>>
    /\ UNCHANGED mailVars

SiteStep(t) ==
    \/ BuildCheck(t)
    \/ CredsCheck(t)
    \/ GcLoad(t)
    \/ GcBranch(t)
    \/ GcRefresh(t)
    \/ GcFlow(t)
    \/ GcWrite(t)
    \/ GcReturn(t)
    \/ CredsReturn(t)
    \/ DoBuild(t)
    \/ BuildReturn(t)

\* The program as the repository runs it: a single thread, one request at a
\* time.
MainSite == CHOOSE t \in Sites : \A s \in Sites : t <= s

Next ==
    \/ \E arg \in {{}, ALL_SCOPES} : FactoryInit(arg)
    \/ \E api \in Apis : RequestBuild(MainSite, api)
    \/ RequestCredentials(MainSite)
    \/ \E t \in Sites : BuildCheck(t)
    \/ \E t \in Sites : CredsCheck(t)
    \/ \E t \in Sites : GcLoad(t)
    \/ \E t \in Sites : GcBranch(t)
    \/ \E t \in Sites : GcRefresh(t)
    \/ \E t \in Sites : GcFlow(t)
    \/ \E t \in Sites : GcWrite(t)
    \/ \E t \in Sites : GcReturn(t)
    \/ \E t \in Sites : CredsReturn(t)
    \/ \E t \in Sites : DoBuild(t)
    \/ \E t \in Sites : BuildReturn(t)
    \/ Expire
    \/ \E g \in 1..nextTok : Revoke(g)

Spec == Init /\ [][Next]_vars

\* Call sites on separate threads sharing the factory, each making one
\* request: the requests overlap and their steps interleave.
NextConc ==
    \/ \E arg \in {{}, ALL_SCOPES} : FactoryInit(arg)
    \/ \E t \in Sites, api \in Apis : pc[t] = "idle" /\ RequestBuild(t, api)
    \/ \E t \in Sites : pc[t] = "idle" /\ RequestCredentials(t)
    \/ \E t \in Sites : SiteStep(t)
    \/ Expire
    \/ \E g \in 1..nextTok : Revoke(g)

SpecConc == Init /\ [][NextConc]_vars

\* ======================================================================
\* lib.gmail_client: the MIME codec
\* ======================================================================
\* A str is a sequence of one-character strings, bytes are a sequence of
\* 0..255 and decoded text is a sequence of code points.

\* ---------------------------------------------------------------- bounds
MaxNodes == 4      \* nodes of a MIME payload tree
MaxDataLen == 4    \* characters of a body.data string

\* errors="replace" puts U+FFFD where the bytes are not UTF-8
REPLACEMENT == 65533

\* The base64 alphabet, in the order of the values 0..63.
B64Chars ==
  <<
     "A", "B", "C", "D", "E", "F", "G", "H", "I", "J", "K", "L", "M",
     "N", "O", "P", "Q", "R", "S", "T", "U", "V", "W", "X", "Y", "Z",
     "a", "b", "c", "d", "e", "f", "g", "h", "i", "j", "k", "l", "m",
     "n", "o", "p", "q", "r", "s", "t", "u", "v", "w", "x", "y", "z",
     "0", "1", "2", "3", "4", "5", "6", "7", "8", "9", "+", "/"
  >>

IsB64(c) == \E i \in DOMAIN B64Chars : B64Chars[i] = c
B64Value(c) == (CHOOSE i \in DOMAIN B64Chars : B64Chars[i] = c) - 1

\* base64.urlsafe_b64decode first maps "-" to "+" and "_" to "/"
UrlsafeToStd(c) == IF c = "-" THEN "+" ELSE IF c = "_" THEN "/" ELSE c
Translate(s) == [i \in 1..Len(s) |-> UrlsafeToStd(s[i])]

\* What a call returns: text, or the exception it raised.
Returned(text) == [raised |-> "", text |-> text]
Raised(e) == [raised |-> e, text |-> <<>>]

\* binascii.a2b_base64 as b64decode calls it (not strict): characters outside
\* the alphabet are dropped; "=" ends the input once it completes a quad of
\* two or three data characters; input that ends inside a quad is an error.
RECURSIVE A2bBase64(_, _, _, _, _, _)
A2bBase64(s, i, quad, left, pads, out) ==
    IF i > Len(s)
      THEN IF quad = 0 THEN Returned(out) ELSE Raised("binascii.Error")
    ELSE IF s[i] = "="
      THEN IF quad >= 2 /\ quad + pads + 1 >= 4
             THEN Returned(out)
             ELSE A2bBase64(s, i + 1, quad, left,
                            IF quad >= 2 THEN pads + 1 ELSE pads, out)
    ELSE IF ~IsB64(s[i])
      THEN A2bBase64(s, i + 1, quad, left, pads, out)
    ELSE LET v == B64Value(s[i]) IN
         CASE quad = 0 -> A2bBase64(s, i + 1, 1, v, 0, out)
           [] quad = 1 -> A2bBase64(s, i + 1, 2, v % 16, 0,
                                    Append(out, left * 4 + (v \div 16)))
           [] quad = 2 -> A2bBase64(s, i + 1, 3, v % 4, 0,
                                    Append(out, left * 16 + (v \div 4)))
           [] quad = 3 -> A2bBase64(s, i + 1, 0, 0, 0,
                                    Append(out, left * 64 + v))

UrlsafeB64Decode(s) == A2bBase64(Translate(s), 1, 0, 0, 0, <<>>)

\* bytes.decode("utf-8", errors="replace"): a well-formed sequence gives its
\* code point; a byte that cannot start a sequence, or the longest prefix of
\* a sequence that is cut short or broken, gives one U+FFFD.
IsCont(b) == b >= 128 /\ b <= 191
SecondOk(lead, b) ==
    /\ IsCont(b)
    /\ lead = 224 => b >= 160
    /\ lead = 237 => b <= 159
    /\ lead = 240 => b >= 144
    /\ lead = 244 => b <= 143
SeqLen(lead) ==
    IF lead >= 194 /\ lead <= 223 THEN 2
    ELSE IF lead >= 224 /\ lead <= 239 THEN 3
    ELSE IF lead >= 240 /\ lead <= 244 THEN 4
    ELSE 0

RECURSIVE Accepted(_, _, _, _)
Accepted(bs, i, j, k) ==
    IF /\ j < k
       /\ i + j <= Len(bs)
       /\ IF j = 1 THEN SecondOk(bs[i], bs[i + j]) ELSE IsCont(bs[i + j])
      THEN Accepted(bs, i, j + 1, k)
      ELSE j

CodePoint(bs, i, k) ==
    CASE k = 2 -> (bs[i] % 32) * 64 + (bs[i + 1] % 64)
      [] k = 3 -> (bs[i] % 16) * 4096 + (bs[i + 1] % 64) * 64
                    + (bs[i + 2] % 64)
      [] k = 4 -> (bs[i] % 8) * 262144 + (bs[i + 1] % 64) * 4096
                    + (bs[i + 2] % 64) * 64 + (bs[i + 3] % 64)

RECURSIVE Utf8DecodeFrom(_, _, _)
Utf8DecodeFrom(bs, i, out) ==
    IF i > Len(bs) THEN out
    ELSE IF bs[i] < 128 THEN Utf8DecodeFrom(bs, i + 1, Append(out, bs[i]))
    ELSE LET k == SeqLen(bs[i])
             j == IF k = 0 THEN 1 ELSE Accepted(bs, i, 1, k)
         IN  IF k # 0 /\ j = k
               THEN Utf8DecodeFrom(bs, i + k, Append(out, CodePoint(bs, i, k)))
               ELSE Utf8DecodeFrom(bs, i + j, Append(out, REPLACEMENT))

Utf8DecodeReplace(bs) == Utf8DecodeFrom(bs, 1, <<>>)

\* (the remainder instead of its complement: pads a multiple of 4 by none,
\* but n = 4k+1 by one and n = 4k+3 by three)
PadCount_Remainder(n) == n % 4

\* line 37: -len(data) % 4, Python's % taking the sign of the divisor
PadCount(n) == (0 - n) % 4

\* line 37: padded = data + "=" * (-len(data) % 4)
Padded(data) == data \o [i \in 1..PadCount(Len(data)) |-> "="]

\* line 38: base64.urlsafe_b64decode(padded).decode("utf-8", errors="replace")
DecodeData(data) ==
    LET b == UrlsafeB64Decode(Padded(data))
    IN  IF b.raised # "" THEN b ELSE Returned(Utf8DecodeReplace(b.text))

\* ------------------------------------------------------ _decode_payload
\* A payload node of the Gmail API: mimeType as <<type, subtype>>, body.data
\* (<<>> when absent) and parts.
TextPlain == <<"text", "plain">>
TextHtml == <<"text", "html">>
Leaf(m, d) == [mimeType |-> m, data |-> d, parts |-> <<>>]
Container(m, ps) == [mimeType |-> m, data |-> <<>>, parts |-> ps]

\* (any text/* part taken for the plain-text part)
IsPlainText_AnyText(m) == m[1] = "text"

\* line 32: mime_type == "text/plain"
IsPlainText(m) == m = TextPlain

\* line 39: mime_type.startswith("multipart/")
IsMultipart(m) == m[1] = "multipart"

\* lines 26-46.  DecodeParts is the loop of lines 40-43 from part i on.
RECURSIVE DecodePayload(_), DecodeParts(_, _)
DecodePayload(payload) ==
    IF IsPlainText(payload.mimeType) /\ payload.data # <<>>
      THEN DecodeData(payload.data)
    ELSE IF IsMultipart(payload.mimeType)
      THEN DecodeParts(payload.parts, 1)
    ELSE Returned(<<>>)
DecodeParts(parts, i) ==
    IF i > Len(parts) THEN Returned(<<>>)
    ELSE LET text == DecodePayload(parts[i])
         IN  IF text.raised # "" \/ text.text # <<>>
               THEN text
               ELSE DecodeParts(parts, i + 1)

\* body.data strings: "hi" and "hello" without their padding, one that
\* decodes to no bytes at all, one that is not base64.
DataHi == <<"a", "G", "k">>
DataHello == <<"a", "G", "V", "s", "b", "G", "8">>
DataBlank == <<"=", "=", "=", "=">>
DataBad == <<"a">>

LeafParts ==
    {Leaf(TextPlain, d) : d \in {<<>>, DataHi, DataHello, DataBlank, DataBad}}
      \cup {Leaf(TextHtml, DataHi)}
ContainerTypes == {<<"multipart", "mixed">>, <<"message", "rfc822">>}

\* The payload trees of n nodes, and the part lists of n nodes in all.
RECURSIVE TreesOfSize(_), ForestsOfSize(_)
TreesOfSize(n) ==
    (IF n = 1 THEN LeafParts ELSE {})
      \cup {Container(m, f) : m \in ContainerTypes, f \in ForestsOfSize(n - 1)}
ForestsOfSize(n) ==
    IF n = 0 THEN {<<>>}
    ELSE UNION {{<<t>> \o f : t \in TreesOfSize(k), f \in ForestsOfSize(n - k)} :
                  k \in 1..n}
\* (operators of the bound, so that they are evaluated where they are used)
PayloadTrees(max) == UNION {TreesOfSize(n) : n \in 1..max}

DataChars == {"a", "G", "k", "_", "=", "!"}
RECURSIVE StringsUpTo(_)
StringsUpTo(n) ==
    IF n = 0 THEN {<<>>}
    ELSE StringsUpTo(n - 1)
           \cup {Append(d, c) : d \in StringsUpTo(n - 1), c \in DataChars}
DataStrings(max) == StringsUpTo(max) \cup {DataHello}

\* _decode_payload applied to a payload of a messages.get response
InitDecode ==
    /\ AuthInit /\ tokenFile = NoFile
    /\ mpc = "decode"
    /\ args \in PayloadTrees(MaxNodes)
                 \cup {Leaf(TextPlain, d) : d \in DataStrings(MaxDataLen)}
    /\ locals = <<>>
    /\ returned = <<>>

DecodePayloadCall ==
    /\ mpc = "decode"
    /\ locals' = [padded |-> IF IsPlainText(args.mimeType) /\ args.data # <<>>
                               THEN Padded(args.data) ELSE <<>>]
    /\ returned' = DecodePayload(args)
    /\ mpc' = IF returned'.raised # "" THEN "raised" ELSE "returned"
    /\ UNCHANGED <<args, authVars>>

NextDecode == DecodePayloadCall

SpecDecode == InitDecode /\ [][NextDecode]_vars

\* ------------------------------------------- _parse_message, get_message
\* str.strip(): the characters for which str.isspace() holds
Whitespace ==
    (9..13) \cup (28..32) \cup {133, 160, 5760} \cup (8192..8202)
      \cup {8232, 8233, 8239, 8287, 12288}

RECURSIVE LStrip(_)
LStrip(text) ==
    IF text # <<>> /\ Head(text) \in Whitespace THEN LStrip(Tail(text)) ELSE text
RECURSIVE RStrip(_)
RStrip(text) ==
    IF text # <<>> /\ text[Len(text)] \in Whitespace
      THEN RStrip(SubSeq(text, 1, Len(text) - 1))
      ELSE text
Strip(text) == RStrip(LStrip(text))

\* What a method returns: a value, or the exception it raised.
Value(v) == [raised |-> "", value |-> v]
Failure(e) == [raised |-> e, value |-> <<>>]

\* lines 63-79: message_id=raw["id"] is evaluated before the body is decoded;
\* a raw message without "id" raises KeyError.  id 0 stands for a missing key.
ParseMessage(raw) ==
    IF raw.id = 0 THEN Failure("KeyError")
    ELSE LET body == DecodePayload(raw.payload)
         IN  IF body.raised # "" THEN Failure(body.raised)
             ELSE Value([message_id |-> raw.id, body_plain |-> Strip(body.text)])

\* lines 142-147: messages.get(...).execute() raises what the transport or
\* the credential refresh inside it raises, else its response is parsed.
GetMessage(item) ==
    IF item.fetch # "ok" THEN Failure(item.fetch) ELSE ParseMessage(item.raw)

\* ---------------------------------------------------- GmailClient.search
MaxItems == 3      \* messages of a messages.list response

\* " hi ", with the blanks that strip() removes
DataHiBlanks == <<"I", "G", "h", "p", "I", "A">>

\* What can stand at position n of the listing: the item has its id or not,
\* fetching it succeeds or faults, the message fetched has its id or not and
\* a body that decodes or not.
ItemsAt(n) ==
    {[id |-> n, fetch |-> "ok",
      raw |-> [id |-> n, payload |-> Leaf(TextPlain, DataHiBlanks)]],
     [id |-> 0, fetch |-> "ok",
      raw |-> [id |-> n, payload |-> Leaf(TextPlain, DataHi)]],
     [id |-> n, fetch |-> "TimeoutError",
      raw |-> [id |-> n, payload |-> Leaf(TextPlain, DataHi)]],
     [id |-> n, fetch |-> "RefreshError",
      raw |-> [id |-> n, payload |-> Leaf(TextPlain, DataHi)]],
     [id |-> n, fetch |-> "ok",
      raw |-> [id |-> 0, payload |-> Leaf(TextPlain, DataHi)]],
     [id |-> n, fetch |-> "ok",
      raw |-> [id |-> n, payload |-> Leaf(TextPlain, DataBad)]]}

RECURSIVE Listings(_)
Listings(n) ==
    IF n = 0 THEN {<<>>}
    ELSE Listings(n - 1)
           \cup {Append(l, it) : l \in {k \in Listings(n - 1) : Len(k) = n - 1},
                                it \in ItemsAt(n)}

InitSearch ==
    /\ AuthInit /\ tokenFile = NoFile
    /\ mpc = "search"
    /\ args \in [list : {"ok", "TimeoutError"}, messages : Listings(MaxItems)]
    /\ locals = <<>>
    /\ returned = <<>>

\* lines 114-120: the listing; a fault of execute() leaves search
SearchList ==
    /\ mpc = "search"
    /\ IF args.list = "ok"
         THEN /\ locals' = [i |-> 1, results |-> <<>>, warnings |-> <<>>,
                            exc |-> ""]
              /\ mpc' = "loop"
              /\ UNCHANGED returned
         ELSE /\ returned' = Failure(args.list)
              /\ mpc' = "raised"
              /\ UNCHANGED locals
    /\ UNCHANGED <<args, authVars>>

\* lines 121-123: results.append(self.get_message(item["id"])) inside try
SearchTry ==
    /\ mpc = "loop"
    /\ locals.i <= Len(args.messages)
    /\ LET item == args.messages[locals.i]
           got == IF item.id = 0 THEN Failure("KeyError") ELSE GetMessage(item)
       IN  IF got.raised = ""
             THEN /\ locals' = [locals EXCEPT !.results = Append(@, got.value),
                                              !.i = @ + 1]
                  /\ mpc' = "loop"
             ELSE /\ locals' = [locals EXCEPT !.exc = got.raised]
                  /\ mpc' = "except"
    /\ UNCHANGED <<args, returned, authVars>>

\* lines 124-125: except Exception as exc: logger.warning(..., item["id"], exc)
\* and on to the next item; item["id"] of an item without id raises KeyError
\* out of the handler and out of search.
SearchExcept ==
    /\ mpc = "except"
    /\ LET item == args.messages[locals.i]
       IN  IF item.id = 0
             THEN /\ returned' = Failure("KeyError")
                  /\ mpc' = "raised"
                  /\ UNCHANGED locals
             ELSE /\ locals' = [locals EXCEPT
                                  !.warnings = Append(@, [id |-> item.id,
                                                          exc |-> locals.exc]),
                                  !.exc = "",
                                  !.i = @ + 1]
                  /\ mpc' = "loop"
                  /\ UNCHANGED returned
    /\ UNCHANGED <<args, authVars>>

\* line 126: return results
SearchReturn ==
    /\ mpc = "loop"
    /\ locals.i > Len(args.messages)
    /\ returned' = Value(locals.results)
    /\ mpc' = "returned"
    /\ UNCHANGED <<args, locals, authVars>>

NextSearch ==
    \/ SearchList
    \/ SearchTry
    \/ SearchExcept
    \/ SearchReturn

SpecSearch == InitSearch /\ [][NextSearch]_vars

\* ------------------------------------------------ GmailClient.send_message
MaxBodyLen == 2    \* characters of a message body

\* base64mime.body_encode puts 57 bytes (76 characters) on a line
MaxLineBytes == 57

\* An Optional[str] argument; `if x:` holds for a string that is not empty.
None == [some |-> FALSE, v |-> <<>>]
Some(v) == [some |-> TRUE, v |-> v]
Truthy(x) == x.some /\ x.v # <<>>

\* (one byte per character, as latin-1 would give)
Utf8Encode_Latin1(text) == [i \in 1..Len(text) |-> text[i] % 256]

\* str.encode("utf-8"), as MIMEText(..., "utf-8") applies it to the body
RECURSIVE Utf8Encode(_)
Utf8Encode(text) ==
    IF text = <<>> THEN <<>>
    ELSE LET c == Head(text)
             bytes ==
               IF c < 128 THEN <<c>>
               ELSE IF c < 2048 THEN <<192 + (c \div 64), 128 + (c % 64)>>
               ELSE IF c < 65536
                 THEN <<224 + (c \div 4096), 128 + ((c \div 64) % 64),
                        128 + (c % 64)>>
               ELSE <<240 + (c \div 262144), 128 + ((c \div 4096) % 64),
                      128 + ((c \div 64) % 64), 128 + (c % 64)>>
         IN  bytes \o Utf8Encode(Tail(text))

\* binascii.b2a_base64 without the newline: 3 bytes to 4 characters, the
\* last group padded with "="
RECURSIVE B64Encode(_)
B64Encode(bs) ==
    IF bs = <<>> THEN <<>>
    ELSE IF Len(bs) = 1
      THEN <<B64Chars[(bs[1] \div 4) + 1], B64Chars[(bs[1] % 4) * 16 + 1],
             "=", "=">>
    ELSE IF Len(bs) = 2
      THEN <<B64Chars[(bs[1] \div 4) + 1],
             B64Chars[(bs[1] % 4) * 16 + (bs[2] \div 16) + 1],
             B64Chars[(bs[2] % 16) * 4 + 1], "=">>
    ELSE <<B64Chars[(bs[1] \div 4) + 1],
           B64Chars[(bs[1] % 4) * 16 + (bs[2] \div 16) + 1],
           B64Chars[(bs[2] % 16) * 4 + (bs[3] \div 64) + 1],
           B64Chars[(bs[3] % 64) + 1]>>
           \o B64Encode(SubSeq(bs, 4, Len(bs)))

\* email.base64mime.body_encode: "" for no bytes, else lines of at most
\* MaxLineBytes bytes, each ended by a newline
RECURSIVE BodyEncode(_)
BodyEncode(bs) ==
    IF bs = <<>> THEN <<>>
    ELSE IF Len(bs) <= MaxLineBytes THEN B64Encode(bs) \o <<"\n">>
    ELSE B64Encode(SubSeq(bs, 1, MaxLineBytes)) \o <<"\n">>
           \o BodyEncode(SubSeq(bs, MaxLineBytes + 1, Len(bs)))

\* MIMEText(text, subtype, "utf-8"): a text part whose content is the
\* base64 of the UTF-8 bytes of the text
MIMEText(text, subtype) ==
    [mimeType |-> <<"text", subtype>>, headers |-> <<>>,
     content |-> BodyEncode(Utf8Encode(text)), parts |-> <<>>]

\* (the HTML part attached first)
Alternative_HtmlFirst(body, html_body) ==
    [mimeType |-> <<"multipart", "alternative">>, headers |-> <<>>,
     content |-> <<>>,
     parts |-> <<MIMEText(html_body, "html"), MIMEText(body, "plain")>>]

\* lines 183-185: MIMEMultipart("alternative") with the plain part attached
\* first and the HTML part second
Alternative(body, html_body) ==
    [mimeType |-> <<"multipart", "alternative">>, headers |-> <<>>,
     content |-> <<>>,
     parts |-> <<MIMEText(body, "plain"), MIMEText(html_body, "html")>>]

\* (only In-Reply-To set)
ReplyHeaders_InReplyToOnly(id) ==
    IF Truthy(id) THEN <<[name |-> "In-Reply-To", value |-> id.v]>> ELSE <<>>

\* lines 192-194
ReplyHeaders(id) ==
    IF Truthy(id)
      THEN <<[name |-> "In-Reply-To", value |-> id.v],
             [name |-> "References", value |-> id.v]>>
      ELSE <<>>

\* Message bodies: "hello", and the texts of up to MaxBodyLen characters
\* taking 1, 2, 3 and 4 bytes in UTF-8, and a newline.
Hello == <<104, 101, 108, 108, 111>>
BodyChars == {104, 233, 8364, 128512, 10}
RECURSIVE TextsUpTo(_)
TextsUpTo(n) ==
    IF n = 0 THEN {<<>>}
    ELSE TextsUpTo(n - 1)
           \cup {Append(x, c) : x \in TextsUpTo(n - 1), c \in BodyChars}
Bodies(max) == TextsUpTo(max) \cup {Hello}

InitSend ==
    /\ AuthInit /\ tokenFile = NoFile
    /\ mpc = "send"
    /\ args \in [to : {<<"a@example.com">>},
                 subject : {"subject"},
                 body : Bodies(MaxBodyLen),
                 thread_id : {None, Some(<<"T", "1">>)},
                 reply_to_rfc_id : {None, Some(<<>>), Some(<<"<", "m", "@", "x", ">">>)},
                 html_body : {None, Some(<<>>), Some(<<60, 104, 62>>)}]
    /\ locals = <<>>
    /\ returned = <<>>

\* lines 180-187: recipients, and the MIME message for the bodies given
SendBuild ==
    /\ mpc = "send"
    /\ locals' = [recipients |-> args.to,
                  mime |-> IF Truthy(args.html_body)
                             THEN Alternative(args.body, args.html_body.v)
                             ELSE MIMEText(args.body, "plain")]
    /\ mpc' = "built"
    /\ UNCHANGED <<args, returned, authVars>>

\* lines 189-194: the headers (the "to" value stands for the joined list)
SendHeaders ==
    /\ mpc = "built"
    /\ locals' = [locals EXCEPT !.mime.headers =
                    @ \o <<[name |-> "to", value |-> locals.recipients],
                           [name |-> "from", value |-> "me"],
                           [name |-> "subject", value |-> args.subject]>>
                      \o ReplyHeaders(args.reply_to_rfc_id)]
    /\ mpc' = "headed"
    /\ UNCHANGED <<args, returned, authVars>>

\* lines 196-199: raw stands for the URL-safe base64 of mime.as_bytes(), the
\* message as the service receives it; threadId only for a thread id given
SendEncode ==
    /\ mpc = "headed"
    /\ locals' = [recipients |-> locals.recipients, mime |-> locals.mime,
                  body_dict |-> [raw |-> locals.mime,
                                 threadId |-> IF Truthy(args.thread_id)
                                                THEN args.thread_id
                                                ELSE None]]
    /\ mpc' = "encoded"
    /\ UNCHANGED <<args, returned, authVars>>

\* lines 201-205: messages.send(...).execute() answers with the id of the
\* message sent, or faults
SendExecute ==
    /\ mpc = "encoded"
    /\ \/ /\ returned' = Value("sent-1")
          /\ mpc' = "sent"
       \/ /\ returned' = Failure("HttpError")
          /\ mpc' = "raised"
    /\ UNCHANGED <<args, locals, authVars>>

\* The body.data under which a part's content is presented: the base64 the
\* part was built with, or (line 36: "Gmail uses URL-safe base64") its bytes
\* in the URL-safe alphabet, with or without the padding.
StdToUrlsafe(c) == IF c = "+" THEN "-" ELSE IF c = "/" THEN "_" ELSE c
Unpadded(d) == SelectSeq(d, LAMBDA c : c # "=")
DataForms(content) ==
    LET bytes == UrlsafeB64Decode(content).text
        urlsafe == [i \in 1..Len(B64Encode(bytes)) |->
                      StdToUrlsafe(B64Encode(bytes)[i])]
    IN  {content, urlsafe, Unpadded(urlsafe)}

\* The payload trees under which the message built reads back.
RECURSIVE PayloadsOf(_)
PayloadsOf(mime) ==
    IF mime.parts = <<>>
      THEN {Leaf(mime.mimeType, d) : d \in DataForms(mime.content)}
      ELSE {Container(mime.mimeType, <<p, q>>) :
              p \in PayloadsOf(mime.parts[1]), q \in PayloadsOf(mime.parts[2])}

\* messages.get(format="full") of the message sent (lines 144-146)
FetchSent ==
    /\ mpc = "sent"
    /\ \E payload \in PayloadsOf(locals.body_dict.raw) :
           locals' = [payload |-> payload]
    /\ mpc' = "fetched"
    /\ UNCHANGED <<args, returned, authVars>>

\* _decode_payload of the payload read back
DecodeSent ==
    /\ mpc = "fetched"
    /\ returned' = DecodePayload(locals.payload)
    /\ mpc' = "decoded"
    /\ UNCHANGED <<args, locals, authVars>>

NextSend ==
    \/ SendBuild
    \/ SendHeaders
    \/ SendEncode
    \/ SendExecute
    \/ FetchSent
    \/ DecodeSent

SpecSend == InitSend /\ [][NextSend]_vars

\* ---------------------------------------------------------- _parse_date
\* Instants and wall-clock times are counted in hours; datetime represents
\* the hours 0..MaxInstant (MINYEAR to MAXYEAR).
MaxInstant == 4    \* the last hour a datetime can hold

\* UTC offsets of a Date header and of the system's local zone
Offsets == {0 - 1, 0, 1}

\* The Date header of a message: missing, empty, not a date, or a date with
\* its wall-clock time and its zone ("-0000" or no zone gives a naive datetime).
NoDates ==
    {[kind |-> k, wall |-> 0, aware |-> FALSE, offset |-> 0] :
       k \in {"missing", "empty", "garbage"}}
Dates(max) ==
    {[kind |-> "date", wall |-> w, aware |-> TRUE, offset |-> o] :
       w \in 0..max, o \in Offsets}
      \cup {[kind |-> "date", wall |-> w, aware |-> FALSE, offset |-> 0] :
              w \in 0..max}

\* line 73: headers.get("date", "")
HeaderGet(h) == IF h.kind = "missing" THEN [h EXCEPT !.kind = "empty"] ELSE h

\* line 52: email.utils.parsedate_to_datetime raises ValueError for what is
\* not a date
ParsedateToDatetime(h) ==
    IF h.kind = "date"
      THEN Value([wall |-> h.wall, aware |-> h.aware, offset |-> h.offset])
      ELSE Failure("ValueError")

\* line 53: dt.astimezone(timezone.utc); a naive datetime is taken as local
\* time; a result outside the range of datetime raises OverflowError
Astimezone(dt, local) ==
    LET utc == dt.wall - (IF dt.aware THEN dt.offset ELSE local)
    IN  IF utc \in 0..MaxInstant
          THEN Value([wall |-> utc, aware |-> TRUE, offset |-> 0])
          ELSE Failure("OverflowError")

\* (a handler for ValueError alone)
Caught_ValueErrorOnly(e) == e = "ValueError"

\* line 54: except Exception
Caught(e) == e \in {"ValueError", "TypeError", "OverflowError"}

InitDate ==
    /\ AuthInit /\ tokenFile = NoFile
    /\ mpc = "parse_date"
    /\ args \in [date : NoDates \cup Dates(MaxInstant), local : Offsets,
                 now : 0..MaxInstant]
    /\ locals = <<>>
    /\ returned = <<>>

\* lines 51-53
ParseDateTry ==
    /\ mpc = "parse_date"
    /\ LET dt == ParsedateToDatetime(HeaderGet(args.date))
           utc == IF dt.raised # "" THEN dt
                  ELSE Astimezone(dt.value, args.local)
       IN  IF utc.raised = ""
             THEN /\ returned' = utc
                  /\ mpc' = "returned"
                  /\ UNCHANGED locals
             ELSE /\ locals' = [exc |-> utc.raised]
                  /\ mpc' = "date_except"
                  /\ UNCHANGED returned
    /\ UNCHANGED <<args, authVars>>

\* lines 54-55: return datetime.now(timezone.utc)
ParseDateExcept ==
    /\ mpc = "date_except"
    /\ IF Caught(locals.exc)
         THEN /\ returned' = Value([wall |-> args.now, aware |-> TRUE,
                                    offset |-> 0])
              /\ mpc' = "returned"
         ELSE /\ returned' = Failure(locals.exc)
              /\ mpc' = "raised"
    /\ UNCHANGED <<args, locals, authVars>>

NextDate ==
    \/ ParseDateTry
    \/ ParseDateExcept

SpecDate == InitDate /\ [][NextDate]_vars

\* ----------------------------------------------------------------------
\* lib/docs_client.py: _extract_text
\*
\* A document body is its 'content' list; a structural element carries one
\* marker key (kind): "paragraph", "table", "tableOfContents", or another
\* one such as "sectionBreak".  A table is a list of rows, a row a list of
\* cells, and a cell is its own 'content' list.  Text is a sequence of
\* code points.

MaxDocNodes == 3

Paragraph(elements) ==
    [kind |-> "paragraph", elements |-> elements, tableRows |-> <<>>,
     content |-> <<>>]
Table(rows) ==
    [kind |-> "table", elements |-> <<>>, tableRows |-> rows, content |-> <<>>]
TableOfContents(content) ==
    [kind |-> "tableOfContents", elements |-> <<>>, tableRows |-> <<>>,
     content |-> content]
SectionBreak ==
    [kind |-> "sectionBreak", elements |-> <<>>, tableRows |-> <<>>,
     content |-> <<>>]

\* a paragraph element: a text run (with or without 'content') or another
\* kind of element (pageBreak, inlineObjectElement, ...)
TextRun(content) == [textRun |-> TRUE, content |-> content]
PageBreak == [textRun |-> FALSE, content |-> None]

\* "".join(parts)
RECURSIVE JoinParts(_)
JoinParts(parts) ==
    IF parts = <<>> THEN <<>> ELSE Head(parts) \o JoinParts(Tail(parts))

ParagraphParts_Stripped(elements) ==
    LET RECURSIVE Runs(_)
        Runs(es) ==
            IF es = <<>> THEN <<>>
            ELSE (IF Head(es).textRun
                    THEN <<Strip(IF Head(es).content.some
                                   THEN Head(es).content.v ELSE <<>>)>>
                    ELSE <<>>) \o Runs(Tail(es))
    IN  Runs(elements)

\* lines 28-30: pe["textRun"].get("content", "") of every text run
RECURSIVE ParagraphParts(_)
ParagraphParts(elements) ==
    IF elements = <<>> THEN <<>>
    ELSE LET pe == Head(elements)
         IN  (IF pe.textRun
                THEN <<IF pe.content.some THEN pe.content.v ELSE <<>>>>
                ELSE <<>>) \o ParagraphParts(Tail(elements))

KeepNonBlank_Always(text) == <<text>>

\* lines 37-38 and 45-46: if text.strip(): parts.append(text)
KeepNonBlank(text) == IF Strip(text) # <<>> THEN <<text>> ELSE <<>>

Unrecognized_Placeholder(element) == <<<<63>>>>

\* lines 27-47: an element that matches no branch of the if/elif chain
Unrecognized(element) == <<>>

RECURSIVE ExtractText(_), ExtractParts(_), RowsParts(_), CellsParts(_)
\* lines 34-38
CellsParts(cells) ==
    IF cells = <<>> THEN <<>>
    ELSE KeepNonBlank(ExtractText(Head(cells))) \o CellsParts(Tail(cells))
\* line 33
RowsParts(rows) ==
    IF rows = <<>> THEN <<>>
    ELSE CellsParts(Head(rows)) \o RowsParts(Tail(rows))
\* lines 25-47: the fragments appended to parts
ExtractParts(content) ==
    IF content = <<>> THEN <<>>
    ELSE LET element == Head(content)
         IN  (IF element.kind = "paragraph"
                THEN ParagraphParts(element.elements)
              ELSE IF element.kind = "table"
                THEN RowsParts(element.tableRows)
              ELSE IF element.kind = "tableOfContents"
                THEN KeepNonBlank(ExtractText(element.content))
              ELSE Unrecognized(element)) \o ExtractParts(Tail(content))
\* line 48
ExtractText(content) == JoinParts(ExtractParts(content))

\* Input documents
ParaA == Paragraph(<<TextRun(Some(<<97>>))>>)
ParaBlank == Paragraph(<<TextRun(Some(<<32, 10>>))>>)
ParaMixed ==
    Paragraph(<<TextRun(Some(<<32, 98>>)), PageBreak, TextRun(None),
                TextRun(Some(<<10>>))>>)
LeafElements == {ParaA, ParaBlank, ParaMixed, SectionBreak}

\* Every content list of n nodes, where a leaf element, a table, a table
\* of contents and an empty cell count one node each and a non-empty cell
\* counts as its content.
RECURSIVE ElementsOfSize(_), ContentOfSize(_), RowsOfSize(_), CellsOfSize(_)
ElementsOfSize(n) ==
    (IF n = 1 THEN LeafElements ELSE {})
      \cup {TableOfContents(c) : c \in ContentOfSize(n - 1)}
      \cup {Table(r) : r \in RowsOfSize(n - 1)}
ContentOfSize(n) ==
    IF n = 0 THEN {<<>>}
    ELSE UNION {{<<e>> \o c : e \in ElementsOfSize(k), c \in ContentOfSize(n - k)} :
                  k \in 1..n}
CellsOfSize(n) ==
    UNION {{<<cell>> \o cs : cell \in ContentOfSize(k)
                                       \cup (IF k = 1 THEN {<<>>} ELSE {}),
                             cs \in (IF k = n THEN {<<>>} ELSE CellsOfSize(n - k))} :
             k \in 1..n}
RowsOfSize(n) ==
    IF n = 0 THEN {<<>>}
    ELSE UNION {{<<row>> \o rs : row \in CellsOfSize(k), rs \in RowsOfSize(n - k)} :
                  k \in 1..n}
Documents(max) == UNION {ContentOfSize(n) : n \in 0..max}

InitDocs ==
    /\ AuthInit /\ tokenFile = NoFile
    /\ mpc = "extract_text"
    /\ args \in [content : Documents(MaxDocNodes)]
    /\ locals = <<>>
    /\ returned = <<>>

\* lines 18-48: _extract_text(body)
ExtractTextCall ==
    /\ mpc = "extract_text"
    /\ locals' = [parts |-> ExtractParts(args.content)]
    /\ returned' = Value(ExtractText(args.content))
    /\ mpc' = "returned"
    /\ UNCHANGED <<args, authVars>>

NextDocs == ExtractTextCall

SpecDocs == InitDocs /\ [][NextDocs]_vars

\* ----------------------------------------------------------------------
\* lib/slides_client.py: _extract_slide_text, _extract_notes_text
\*
\* A page is [pageElements, notes]: its own page elements and, when
\* slideProperties.notesPage is present, the page elements of the notes
\* page.  A page element is [shape, placeholder, textElements]: whether
\* it has a 'shape', the shape's placeholder type ("" when the shape has
\* no placeholder) and the shape's text elements; a text element is its
\* text run's content, or None when it has no 'textRun'.

MaxPageNodes == 4

Shape(placeholder, textElements) ==
    [shape |-> TRUE, placeholder |-> placeholder, textElements |-> textElements]
\* a page element without 'shape' (image, table, line, ...)
Image == [shape |-> FALSE, placeholder |-> "", textElements |-> <<>>]

\* " ".join(texts)
RECURSIVE JoinSpace(_)
JoinSpace(texts) ==
    IF texts = <<>> THEN <<>>
    ELSE IF Len(texts) = 1 THEN Head(texts)
    ELSE Head(texts) \o <<32>> \o JoinSpace(Tail(texts))

\* lines 23-27 and 40-43: the stripped, non-empty run contents of a shape
RECURSIVE ShapeTexts(_)
ShapeTexts(textElements) ==
    IF textElements = <<>> THEN <<>>
    ELSE LET te == Head(textElements)
             content == Strip(IF te.some THEN te.v ELSE <<>>)
         IN  (IF content # <<>> THEN <<content>> ELSE <<>>)
               \o ShapeTexts(Tail(textElements))

\* lines 21-22: element.get("shape", {}).get("text", {}).get("textElements", [])
TextElementsOf(element) == IF element.shape THEN element.textElements ELSE <<>>

\* lines 18-29
RECURSIVE SlideTexts(_)
SlideTexts(pageElements) ==
    IF pageElements = <<>> THEN <<>>
    ELSE ShapeTexts(TextElementsOf(Head(pageElements)))
           \o SlideTexts(Tail(pageElements))
ExtractSlideText(page) == JoinSpace(SlideTexts(page.pageElements))

IsBody_AnyPlaceholder(element) == element.shape

\* lines 37-39: shape.get("placeholder", {}).get("type") == "BODY"
IsBody(element) == element.shape /\ element.placeholder = "BODY"

\* lines 32-45
RECURSIVE NotesTexts(_)
NotesTexts(pageElements) ==
    IF pageElements = <<>> THEN <<>>
    ELSE (IF IsBody(Head(pageElements))
            THEN ShapeTexts(TextElementsOf(Head(pageElements)))
            ELSE <<>>) \o NotesTexts(Tail(pageElements))
\* line 34: page.get("slideProperties", {}).get("notesPage", {})
NotesPageElements(page) == IF page.notes.some THEN page.notes.v ELSE <<>>
ExtractNotesText(page) == JoinSpace(NotesTexts(NotesPageElements(page)))

\* Input pages
TextElementInputs == {Some(<<97>>), Some(<<32, 98, 32>>), Some(<<32>>), None}
PlaceholderTypes == {"BODY", "SLIDE_IMAGE"}
RECURSIVE TextElementsOfLen(_)
TextElementsOfLen(n) ==
    IF n = 0 THEN {<<>>}
    ELSE {<<te>> \o ts : te \in TextElementInputs, ts \in TextElementsOfLen(n - 1)}
\* a page element counts one node, and one more for each text element
PageElementsOfSize(n) ==
    (IF n = 1 THEN {Image} ELSE {})
      \cup {Shape(p, ts) : p \in PlaceholderTypes, ts \in TextElementsOfLen(n - 1)}
RECURSIVE ElementListsOfSize(_)
ElementListsOfSize(n) ==
    IF n = 0 THEN {<<>>}
    ELSE UNION {{<<e>> \o es : e \in PageElementsOfSize(k),
                               es \in ElementListsOfSize(n - k)} : k \in 1..n}
Pages(max) ==
    LET lists == [n \in 0..max |-> ElementListsOfSize(n)]
    IN  UNION {UNION {{[pageElements |-> es, notes |-> ns] :
                         es \in lists[k],
                         ns \in {Some(l) : l \in lists[n - k]}
                                  \cup (IF n = k THEN {None} ELSE {})} :
                        k \in 0..n} : n \in 0..max}

InitSlides ==
    /\ AuthInit /\ tokenFile = NoFile
    /\ mpc = "slide_text"
    /\ args \in [page : Pages(MaxPageNodes)]
    /\ locals = <<>>
    /\ returned = <<>>

\* line 161: text_content=_extract_slide_text(page)
ExtractSlideTextCall ==
    /\ mpc = "slide_text"
    /\ locals' = [text_content |-> ExtractSlideText(args.page)]
    /\ mpc' = "notes_text"
    /\ UNCHANGED <<args, returned, authVars>>

\* line 162: notes=_extract_notes_text(page)
ExtractNotesTextCall ==
    /\ mpc = "notes_text"
    /\ returned' = Value([text_content |-> locals.text_content,
                          notes |-> ExtractNotesText(args.page)])
    /\ mpc' = "returned"
    /\ UNCHANGED <<args, locals, authVars>>

NextSlides ==
    \/ ExtractSlideTextCall
    \/ ExtractNotesTextCall

SpecSlides == InitSlides /\ [][NextSlides]_vars

\* ----------------------------------------------------------------------
\* Resource parsers (lib/*_client.py)
\*
\* A raw response is a function from the keys it carries to their values.
\* Values are tokens: PlainValue for a well-formed value of the key's type,
\* IdValue for an identity, IsoTime for a timestamp, and a token naming the
\* sub-keys present for the nested dicts the parsers look into.  Entities
\* are records of tokens: "" is the empty string, "[]" the empty list,
\* "None" is None.

IdValue == "id-1"
PlainValue == "val"
IsoTime == "2024-05-01T09:00:00Z"
UnknownKey == "unknownField"

\* raw.get(field, default)
Get(raw, field, default) ==
    IF field \in DOMAIN raw THEN raw[field] ELSE default

\* datetime.fromisoformat(s)
FromIsoformat(s) ==
    IF s = IsoTime THEN Value("datetime") ELSE Failure("ValueError")

\* tasks_client.py lines 21-28, keep_client.py lines 124-130
ParseRfc3339(s) ==
    IF s = "" THEN "None"
    ELSE IF FromIsoformat(s).raised = "" THEN FromIsoformat(s).value
    ELSE "None"

\* gmail_client.py lines 63-79, at the level of the keys of raw: a payload
\* that is present carries its headers and a body
ParseMessageKeys(raw) ==
    LET payload == "payload" \in DOMAIN raw
    IN  IF "id" \notin DOMAIN raw THEN Failure("KeyError")
        ELSE Value([message_id |-> raw["id"],
                    thread_id |-> Get(raw, "threadId", ""),
                    subject |-> IF payload THEN PlainValue ELSE "(no subject)",
                    sender |-> IF payload THEN PlainValue ELSE "",
                    recipients |-> IF payload THEN PlainValue ELSE "[]",
                    date |-> IF payload THEN "datetime" ELSE "now",
                    snippet |-> Get(raw, "snippet", ""),
                    body_plain |-> IF payload THEN PlainValue ELSE "",
                    labels |-> Get(raw, "labelIds", "[]")])

\* docs_client.py lines 147-155
ParseDoc(raw) ==
    IF "documentId" \notin DOMAIN raw THEN Failure("KeyError")
    ELSE Value([doc_id |-> raw["documentId"],
                title |-> Get(raw, "title", ""),
                body_text |-> Get(raw, "body", ""),
                revision_id |-> Get(raw, "revisionId", ""),
                url |-> "url"])

\* slides_client.py lines 153-170; page["objectId"] of every slide
ParsePresentation(raw) ==
    IF "presentationId" \notin DOMAIN raw THEN Failure("KeyError")
    ELSE IF Get(raw, "slides", "[]") = "[page without objectId]"
      THEN Failure("KeyError")
    ELSE Value([presentation_id |-> raw["presentationId"],
                title |-> Get(raw, "title", ""),
                slides |-> Get(raw, "slides", "[]"),
                url |-> "url"])

\* tasks_client.py lines 195-204
ParseTask(raw) ==
    IF "id" \notin DOMAIN raw THEN Failure("KeyError")
    ELSE Value([task_id |-> raw["id"],
                title |-> Get(raw, "title", ""),
                status |-> Get(raw, "status", "needsAction"),
                notes |-> Get(raw, "notes", ""),
                due |-> ParseRfc3339(Get(raw, "due", "")),
                completed_at |-> ParseRfc3339(Get(raw, "completed", "")),
                parent_id |-> Get(raw, "parent", "None")])

\* tasks_client.py lines 207-212
ParseTasklist(raw) ==
    IF "id" \notin DOMAIN raw THEN Failure("KeyError")
    ELSE Value([list_id |-> raw["id"],
                title |-> Get(raw, "title", ""),
                updated |-> ParseRfc3339(Get(raw, "updated", ""))])

\* drive_client.py lines 222-227
DriveDt(s) == IF s # "" THEN FromIsoformat(s) ELSE Value("now")

\* drive_client.py lines 221-237
ParseFile(raw) ==
    LET created == DriveDt(Get(raw, "createdTime", ""))
        modified == DriveDt(Get(raw, "modifiedTime", ""))
    IN  IF "id" \notin DOMAIN raw THEN Failure("KeyError")
        ELSE IF created.raised # "" THEN created
        ELSE IF modified.raised # "" THEN modified
        ELSE Value([file_id |-> raw["id"],
                    name |-> Get(raw, "name", ""),
                    mime_type |-> Get(raw, "mimeType", ""),
                    created_time |-> created.value,
                    modified_time |-> modified.value,
                    web_view_link |-> Get(raw, "webViewLink", ""),
                    size_bytes |-> IF "size" \in DOMAIN raw THEN "int"
                                   ELSE "None"])

\* the 'start' and 'end' dicts of an event, named by the keys they carry
EventDts == {"{}", "{date}", "{dateTime}", "{date,dateTime}"}
HasDate(dt_dict) == dt_dict \in {"{date}", "{date,dateTime}"}
HasDateTime(dt_dict) == dt_dict \in {"{dateTime}", "{date,dateTime}"}

\* calendar_client.py lines 22-32
ParseEventDt(dt_dict, is_all_day) ==
    IF is_all_day
      THEN IF HasDate(dt_dict) THEN Value("midnight") ELSE Failure("KeyError")
      ELSE FromIsoformat(IF HasDateTime(dt_dict) THEN IsoTime ELSE "")

\* calendar_client.py lines 172-198
ParseEvent(raw) ==
    LET is_all_day == /\ HasDate(Get(raw, "start", "{}"))
                      /\ ~HasDateTime(Get(raw, "start", "{}"))
        start == IF "start" \in DOMAIN raw
                   THEN ParseEventDt(raw["start"], is_all_day)
                   ELSE Failure("KeyError")
        end == IF "end" \in DOMAIN raw
                 THEN ParseEventDt(raw["end"], is_all_day)
                 ELSE Failure("KeyError")
    IN  IF start.raised # "" THEN start
        ELSE IF end.raised # "" THEN end
        ELSE IF "id" \notin DOMAIN raw THEN Failure("KeyError")
        ELSE Value([event_id |-> raw["id"],
                    title |-> Get(raw, "summary", "(no title)"),
                    start |-> start.value,
                    end |-> end.value,
                    description |-> Get(raw, "description", ""),
                    location |-> Get(raw, "location", ""),
                    attendees |-> Get(raw, "attendees", "[]"),
                    organizer |-> Get(raw, "organizer", ""),
                    html_link |-> Get(raw, "htmlLink", ""),
                    is_all_day |-> is_all_day])

\* keep_client.py lines 133-150
ParseNote(raw) ==
    Value([name |-> Get(raw, "name", ""),
           title |-> Get(raw, "title", ""),
           text_content |-> Get(raw, "body", ""),
           create_time |-> ParseRfc3339(Get(raw, "createTime", "")),
           update_time |-> ParseRfc3339(Get(raw, "updateTime", "")),
           is_trashed |-> "trashed" \in DOMAIN raw,
           is_pinned |-> "pinned" \in DOMAIN raw,
           labels |-> Get(raw, "labels", "[]")])

\* meet_client.py lines 81-86
ParseSpace(raw) ==
    Value([name |-> Get(raw, "name", ""),
           meeting_uri |-> Get(raw, "meetingUri", ""),
           meeting_code |-> Get(raw, "meetingCode", "")])

\* drive_labels_client.py lines 154-182
ParseLabel(raw) ==
    Value([label_id |-> Get(raw, "id", ""),
           name |-> Get(raw, "name", ""),
           title |-> Get(raw, "properties", ""),
           description |-> Get(raw, "properties", ""),
           label_type |-> Get(raw, "labelType", ""),
           fields |-> Get(raw, "fields", "[]"),
           is_published |-> "publishedLabelInfo" \in DOMAIN raw])

\* contacts_client.py lines 92-109
ParsePerson(raw) ==
    Value([resource_name |-> Get(raw, "resourceName", ""),
           name |-> Get(raw, "names", ""),
           emails |-> Get(raw, "emailAddresses", "[]"),
           phones |-> Get(raw, "phoneNumbers", "[]"),
           organization |-> Get(raw, "organizations", "")])

Resources ==
    {"message", "document", "presentation", "task", "tasklist", "file",
     "event", "note", "space", "label", "contact"}

Parse(resource, raw) ==
    CASE resource = "message" -> ParseMessageKeys(raw)
      [] resource = "document" -> ParseDoc(raw)
      [] resource = "presentation" -> ParsePresentation(raw)
      [] resource = "task" -> ParseTask(raw)
      [] resource = "tasklist" -> ParseTasklist(raw)
      [] resource = "file" -> ParseFile(raw)
      [] resource = "event" -> ParseEvent(raw)
      [] resource = "note" -> ParseNote(raw)
      [] resource = "space" -> ParseSpace(raw)
      [] resource = "label" -> ParseLabel(raw)
      [] resource = "contact" -> ParsePerson(raw)

\* Input responses: the keys each parser reads, and one it does not
KeysOf(resource) ==
    {UnknownKey} \cup
    CASE resource = "message" -> {"id", "threadId", "snippet", "labelIds", "payload"}
      [] resource = "document" -> {"documentId", "title", "body", "revisionId"}
      [] resource = "presentation" -> {"presentationId", "title", "slides"}
      [] resource = "task" ->
             {"id", "title", "status", "notes", "due", "completed", "parent"}
      [] resource = "tasklist" -> {"id", "title", "updated"}
      [] resource = "file" ->
             {"id", "name", "mimeType", "createdTime", "modifiedTime",
              "webViewLink", "size"}
      [] resource = "event" ->
             {"id", "summary", "start", "end", "description", "location",
              "attendees", "organizer", "htmlLink"}
      [] resource = "note" ->
             {"name", "title", "body", "createTime", "updateTime", "trashed",
              "pinned", "labels"}
      [] resource = "space" -> {"name", "meetingUri", "meetingCode"}
      [] resource = "label" ->
             {"id", "name", "properties", "labelType", "fields",
              "publishedLabelInfo"}
      [] resource = "contact" ->
             {"resourceName", "names", "emailAddresses", "phoneNumbers",
              "organizations"}

\* the key that carries the resource's own identity
IdentityKey(resource) ==
    CASE resource = "document" -> "documentId"
      [] resource = "presentation" -> "presentationId"
      [] resource \in {"note", "space"} -> "name"
      [] resource = "contact" -> "resourceName"
      [] OTHER -> "id"

ValuesOf(resource, field) ==
    IF field = IdentityKey(resource) THEN {IdValue}
    ELSE IF field \in {"due", "completed", "updated", "createdTime",
                     "modifiedTime", "createTime", "updateTime"} THEN {IsoTime}
    ELSE IF resource = "event" /\ field \in {"start", "end"} THEN EventDts
    ELSE IF field = "slides" THEN {"[page]", "[page without objectId]"}
    ELSE {PlainValue}

RECURSIVE RawsOver(_, _)
RawsOver(resource, keys) ==
    IF keys = {} THEN {<<>>}
    ELSE LET field == CHOOSE k \in keys : TRUE
             rest == RawsOver(resource, keys \ {field})
         IN  rest \cup {(field :> v) @@ r : v \in ValuesOf(resource, field), r \in rest}

ParseInputs ==
    UNION {{[resource |-> res, raw |-> r] : r \in RawsOver(res, KeysOf(res))} :
             res \in Resources}

InitParse ==
    /\ AuthInit /\ tokenFile = NoFile
    /\ mpc = "parse"
    /\ args \in ParseInputs
    /\ locals = <<>>
    /\ returned = <<>>

ParseCall ==
    /\ mpc = "parse"
    /\ returned' = Parse(args.resource, args.raw)
    /\ mpc' = "returned"
    /\ UNCHANGED <<args, locals, authVars>>

NextParse == ParseCall

SpecParse == InitParse /\ [][NextParse]_vars

\* ----------------------------------------------------------------------
\* lib/keep_client.py: KeepClient
\*
\* The Keep service holds notes: a function from note ids to whether the
\* note is trashed.  A call's transport either answers or raises: an
\* HttpError with a status, or a fault that is no HttpError (a timeout).

MaxNotes == 2

NoteIds == 1..MaxNotes
Statuses == {400, 401, 403, 404, 429, 500}

HttpError(status) == [type |-> "HttpError", status |-> status, message |-> "raw"]
TimeoutError == [type |-> "TimeoutError", status |-> 0, message |-> "timed out"]
NoFault == [type |-> "", status |-> 0, message |-> ""]
\* line 66: RuntimeError(_WORKSPACE_ERROR)
WorkspaceError ==
    [type |-> "RuntimeError", status |-> 0, message |-> "_WORKSPACE_ERROR"]

\* an exception leaving the method
Propagate(exc) == [raised |-> exc.type, value |-> exc]

KeepOps == {"list_notes", "get_note", "create_note", "delete_note"}

\* what .execute() does at the service when the transport does not fail:
\* the fault it answers with, the notes afterwards, and the response
Execute(op, name, include_trashed, notes) ==
    IF op \in {"get_note", "delete_note"} /\ name \notin DOMAIN notes
      THEN [exc |-> HttpError(404), notes |-> notes, resp |-> <<>>]
    ELSE IF op = "list_notes"
      THEN [exc |-> NoFault, notes |-> notes,
            resp |-> {n \in DOMAIN notes : include_trashed \/ ~notes[n]}]
    ELSE IF op = "get_note"
      THEN [exc |-> NoFault, notes |-> notes, resp |-> name]
    ELSE IF op = "create_note"
      THEN LET new == CHOOSE n \in 1..(MaxNotes + 1) : n \notin DOMAIN notes
           IN  [exc |-> NoFault, notes |-> (new :> FALSE) @@ notes, resp |-> new]
    ELSE [exc |-> NoFault,
          notes |-> [n \in DOMAIN notes \ {name} |-> notes[n]],
          resp |-> <<>>]

IsPermissionDenied_Never(exc) == FALSE

\* lines 65, 77, 103, 117: exc.resp.status == 403
IsPermissionDenied(exc) == exc.status = 403

NoteStores == UNION {[ids -> BOOLEAN] : ids \in SUBSET NoteIds}

InitKeep ==
    /\ AuthInit /\ tokenFile = NoFile
    /\ mpc = "keep_try"
    /\ args \in [op : KeepOps, name : NoteIds, include_trashed : BOOLEAN,
                 fault : {NoFault, TimeoutError} \cup {HttpError(s) : s \in Statuses},
                 notes : NoteStores]
    /\ locals = [notes |-> args.notes, exc |-> NoFault, resp |-> <<>>,
                 log |-> <<>>]
    /\ returned = <<>>

\* lines 62, 74, 99, 114: the request's .execute() inside the try block
KeepExecute ==
    /\ mpc = "keep_try"
    /\ LET out == IF args.fault # NoFault
                    THEN [exc |-> args.fault, notes |-> locals.notes, resp |-> <<>>]
                    ELSE Execute(args.op, args.name, args.include_trashed,
                                 locals.notes)
       IN  /\ locals' = [locals EXCEPT !.exc = out.exc, !.notes = out.notes,
                                       !.resp = out.resp]
           /\ mpc' = IF out.exc = NoFault THEN "keep_rest" ELSE "keep_except"
    /\ UNCHANGED <<args, returned, authVars>>

\* lines 63, 75, 100-102, 115: the rest of the try block
KeepRest ==
    /\ mpc = "keep_rest"
    /\ locals' = [locals EXCEPT !.log =
                     IF args.op = "create_note" THEN <<"Created Keep note">>
                     ELSE IF args.op = "delete_note" THEN <<"Deleted Keep note">>
                     ELSE <<>>]
    /\ returned' = [raised |-> "", value |-> locals.resp]
    /\ mpc' = "returned"
    /\ UNCHANGED <<args, authVars>>

\* lines 64-67, 76-79, 102-105, 116-119: except HttpError as exc
KeepExcept ==
    /\ mpc = "keep_except"
    /\ returned' = IF locals.exc.type = "HttpError" /\ IsPermissionDenied(locals.exc)
                     THEN Propagate(WorkspaceError)
                     ELSE Propagate(locals.exc)
    /\ mpc' = "raised"
    /\ UNCHANGED <<args, locals, authVars>>

NextKeep ==
    \/ KeepExecute
    \/ KeepRest
    \/ KeepExcept

SpecKeep == InitKeep /\ [][NextKeep]_vars

\* ======================================================================
\* Properties
\* ======================================================================
HandlesFor(k) == {h \in DOMAIN handles : handles[h].key = k}
FirstHandle(k) == CHOOSE h \in HandlesFor(k) : \A g \in HandlesFor(k) : h <= g
KeysBuilt == {handles[h].key : h \in DOMAIN handles}
Acquiring == {t \in Sites : pc[t] \in {"gc_refresh", "gc_flow"}}

\* C1: over a sequence of handle requests on one factory, at most one handle
\* is built per key, and every request that returns hands out the handle the
\* first successful build for its key produced.
C1_BuiltOncePerKey ==
    /\ \A k \in KeysBuilt : Cardinality(HandlesFor(k)) = 1
    /\ \A t \in Sites :
         (pc[t] = "done" /\ key[t] # "") =>
            /\ HandlesFor(key[t]) # {}
            /\ result[t] = FirstHandle(key[t])

\* the third request asks again for the first key, after another key was
\* built in between, and gets the first handle
C1_Witness ==
    /\ calls = 3
    /\ Len(handles) = 2
    /\ handles[1].key = "gmail/v1"
    /\ handles[2].key = "calendar/v3"
    /\ pc[MainSite] = "done"
    /\ key[MainSite] = "gmail/v1"
    /\ result[MainSite] = 1

\* C2: two concurrent requests for one key on a shared factory construct
\* exactly one handle and both callers receive that same instance.
C2_OneHandleUnderConcurrency ==
    /\ \A k \in KeysBuilt : Cardinality(HandlesFor(k)) = 1
    /\ \A s, t \in Sites :
         (pc[s] = "done" /\ pc[t] = "done" /\ key[s] # "" /\ key[s] = key[t])
            => result[s] = result[t]

\* C3: at most one credential refresh or interactive consent is in flight at
\* any time.
C3_OneAcquisitionInFlight == Cardinality(Acquiring) <= 1

\* C4 as stated: over any sequence of requests get_credentials is invoked at
\* most once, also when the held credential expires between two requests
\* (here on the runs in which no call has raised).
C4_AcquiredAtMostOnce == ~faulted => acquireCalls <= 1

\* C4, amended: each request invokes get_credentials at most once, and only a
\* credential read that finds no held credential, or a held credential that
\* is not valid, invokes it.
C4_AcquiredOnlyWhenNotValid ==
    /\ [](acquireCalls <= calls)
    /\ [][acquireCalls' # acquireCalls =>
            /\ acquireCalls' = acquireCalls + 1
            /\ \/ creds = 0
               \/ obj[creds].token = 0
               \/ obj[creds].expiry <= clock]_vars

\* the held credential expired between two requests and the second request
\* acquired again, no call having failed
C4_Witness ==
    /\ acquireCalls = 2
    /\ ~faulted
    /\ creds # 0
    /\ obj[creds].expiry <= clock

\* C5: construction acquires no credential, touches no token file and builds
\* no handle; nothing of the kind happens before the first request.
C5_ConstructionIsLazy ==
    /\ [](calls = 0 =>
            /\ creds = 0
            /\ DOMAIN services = {}
            /\ obj = <<>>
            /\ handles = <<>>
            /\ acquireCalls = 0
            /\ ioReads = 0
            /\ ioWrites = 0)
    /\ [][(~constructed /\ constructed') =>
            /\ tokenFile' = tokenFile
            /\ creds' = 0
            /\ DOMAIN services' = {}]_vars

\* the factory is constructed and nothing has been requested yet
C5_Witness == constructed /\ calls = 0

\* C6: whenever a handle is handed to a caller, the credential bound to it is
\* not both expired and without a refresh token (stated here for the handles
\* returned from the cache: a request that finds its key at line 87, and so
\* returns the cached handle at line 91, finds that handle's credential so).
C6_CachedHandleIsUsable ==
    [][\A t \in Sites :
          (pc[t] = "build" /\ pc'[t] = "hit") =>
             ~(/\ obj[handles[services[key[t]]].creds].expiry <= clock
               /\ obj[handles[services[key[t]]].creds].refresh = 0)]_vars

\* C7: get_credentials never starts the interactive flow while the persisted
\* credential it loaded carries a refresh token of a grant that is not revoked.
C7_NoFlowWithUsableRefreshToken ==
    \A t \in Sites :
       pc[t] = "gc_flow" =>
          ~(/\ lcreds[t] # 0
            /\ obj[lcreds[t]].refresh # 0
            /\ obj[lcreds[t]].refresh \notin revoked)

\* C8: a failed silent refresh (revoked grant) does not end the acquisition:
\* no call ends with the refresh failure.
C8_RefreshFailureGoesToFlow ==
    \A t \in Sites : ~(pc[t] = "failed" /\ fault[t] = "RefreshError")

\* C9: when get_credentials is about to return after a refresh or a consent,
\* the token file holds the serialisation of the credential it returns.
C9_PersistedEqualsReturned ==
    \A t \in Sites :
       (pc[t] = "gc_ret" /\ did[t] # "none") =>
          /\ tokenFile.kind = "record"
          /\ tokenFile.token = obj[lcreds[t]].token
          /\ tokenFile.refresh_token = obj[lcreds[t]].refresh
          /\ tokenFile.expiry = obj[lcreds[t]].expiry
          /\ tokenFile.scopes = obj[lcreds[t]].scopes

\* get_credentials is about to return a credential it refreshed, whose token
\* is not the one the file held at the start
C9_Witness ==
    \E t \in Sites :
       /\ pc[t] = "gc_ret"
       /\ did[t] = "refresh"
       /\ obj[lcreds[t]].token > 1

\* C10: a failure to write the token file does not fail the acquisition: no
\* call ends with the write's error.
C10_WriteFailureStillReturns ==
    \A t \in Sites : ~(pc[t] = "failed" /\ fault[t] = "OSError")

\* C11: a call of get_credentials that returns the credential it loaded from
\* TOKEN_FILE, without a refresh and without the consent flow, does so only
\* when the scopes granted to the persisted credential cover the scopes
\* requested.
C11_LoadedOnlyIfScopesCovered ==
    \A t \in Sites :
        (pc[t] = "gc_ret" /\ did[t] = "none") =>
            /\ tokenFile.kind = "record"
            /\ scopes \subseteq tokenFile.scopes

\* C12: the credential object the factory holds keeps its identity across a
\* silent refresh: when get_credentials returns after a refresh, self._creds
\* is still the object it was, the one the handles built so far are bound to.
C12_RefreshKeepsIdentity ==
    [][\A t \in Sites :
          (pc[t] = "gc_ret" /\ pc'[t] = "creds_ret" /\ did[t] = "refresh"
             /\ creds # 0) => creds' = creds]_vars

\* The data of the text/plain nodes that carry data, in depth-first pre-order
\* through the children of multipart containers.
RECURSIVE PlainParts(_), PlainPartsFrom(_, _)
PlainParts(p) ==
    IF p.mimeType = <<"text", "plain">> /\ Len(p.data) > 0 THEN <<p.data>>
    ELSE IF p.mimeType[1] = "multipart" THEN PlainPartsFrom(p.parts, 1)
    ELSE <<>>
PlainPartsFrom(ps, i) ==
    IF i > Len(ps) THEN <<>> ELSE PlainParts(ps[i]) \o PlainPartsFrom(ps, i + 1)

\* The first of these whose decoding gives something other than "".
Decisive(ds) == {i \in 1..Len(ds) : DecodeData(ds[i]) # Returned(<<>>)}
FirstDecisive(ds) == CHOOSE i \in Decisive(ds) : \A j \in Decisive(ds) : i <= j

DecodeEnded == mpc \in {"returned", "raised"}

\* C15 (as stated): _decode_payload returns the decoded body of the first
\* text/plain node with non-empty inline data, in depth-first pre-order;
\* later text/plain parts are ignored.
C15_FirstPlainPartWins ==
    (mpc = "returned" /\ PlainParts(args) # <<>>) =>
        returned = DecodeData(PlainParts(args)[1])

\* C15 (amended): _decode_payload gives the outcome of decoding the first
\* text/plain node with non-empty inline data, in depth-first pre-order
\* through multipart containers, whose decoding is not the empty string; a
\* part that decodes to "" is passed over, later parts are ignored, and a
\* tree with no such part gives "".
C15_FirstNonEmptyTextWins ==
    DecodeEnded =>
        returned = IF Decisive(PlainParts(args)) = {}
                     THEN Returned(<<>>)
                     ELSE DecodeData(PlainParts(args)[FirstDecisive(PlainParts(args))])

\* a text/plain part two levels down is found and a later one is ignored
C15_Witness ==
    /\ mpc = "returned"
    /\ args = Container(<<"multipart", "mixed">>,
                <<Container(<<"multipart", "mixed">>, <<Leaf(TextPlain, DataHi)>>),
                  Leaf(TextPlain, DataHello)>>)
    /\ returned = Returned(<<104, 105>>)

\* C16: _decode_payload never raises, whatever the inline data: malformed
\* base64 and invalid UTF-8 give text, with replacement characters.
C16_DecodingNeverRaises == mpc # "raised"

\* C17: for data of length n >= 1 the padding appended is (-n) mod 4 "="
\* characters, 0 to 3 of them, the padded length is a multiple of 4, nothing
\* is appended when n is a multiple of 4, and the 7 characters "aGVsbG8" get
\* one "=" and decode to "hello".
C17_PaddingRepair ==
    (DecodeEnded /\ args.mimeType = TextPlain /\ Len(args.data) >= 1) =>
        LET n == Len(args.data)
            pad == Len(locals.padded) - n
        IN  /\ pad \in 0..3
            /\ (n + pad) % 4 = 0
            /\ \A k \in 0..3 : (n + k) % 4 = 0 => pad = k
            /\ n % 4 = 0 => locals.padded = args.data
            /\ SubSeq(locals.padded, 1, n) = args.data
            /\ \A i \in (n + 1)..(n + pad) : locals.padded[i] = "="
            /\ args.data = DataHello =>
                 /\ pad = 1
                 /\ returned = Returned(<<104, 101, 108, 108, 111>>)

C17_Witness ==
    /\ mpc = "returned"
    /\ args = Leaf(TextPlain, DataHello)
    /\ locals.padded = DataHello \o <<"=">>
    /\ returned = Returned(<<104, 101, 108, 108, 111>>)

\* C13: a fault of the transport or of the credential store during an
\* operation reaches the caller: search does not return normally after a
\* fetch faulted with a timeout or an authentication failure.
C13_FaultReachesCaller ==
    mpc = "returned" =>
        \A w \in 1..Len(locals.warnings) :
            locals.warnings[w].exc \notin {"TimeoutError", "RefreshError"}

\* C14: search is never aborted by one item: once the listing has been
\* obtained, an item that fails to parse (an item lacking its id included) is
\* logged and skipped, and search does not raise.
C14_NoItemAbortsSearch == ~(mpc = "raised" /\ args.list = "ok")

\* The text a built part carries, and the values of the headers of a name.
PartText(part) == Utf8DecodeReplace(UrlsafeB64Decode(part.content).text)
HeaderValues(hs, n) ==
    LET sel == SelectSeq(hs, LAMBDA h : h.name = n)
    IN  [i \in 1..Len(sel) |-> sel[i].value]
MimeBuilt == mpc \in {"built", "headed", "encoded", "sent", "raised"}

C19_PartsForBodies ==
    MimeBuilt =>
        LET mime == locals.mime
        IN  IF args.html_body.some /\ Len(args.html_body.v) > 0
              THEN /\ mime.mimeType = <<"multipart", "alternative">>
                   /\ Len(mime.parts) = 2
                   /\ mime.parts[1].mimeType = <<"text", "plain">>
                   /\ PartText(mime.parts[1]) = args.body
                   /\ mime.parts[2].mimeType = <<"text", "html">>
                   /\ PartText(mime.parts[2]) = args.html_body.v
              ELSE /\ mime.mimeType = <<"text", "plain">>
                   /\ mime.parts = <<>>
                   /\ PartText(mime) = args.body

C19_Witness ==
    /\ mpc = "built"
    /\ args.body = <<104, 101, 108, 108, 111>>
    /\ args.html_body = Some(<<60, 104, 62>>)
    /\ Len(locals.mime.parts) = 2
    /\ locals.mime.parts[1].mimeType = TextPlain
    /\ locals.mime.parts[2].mimeType = TextHtml

\* C20: when a reply message identifier is supplied the message built has
\* one In-Reply-To and one References header, both equal to it; when none is
\* supplied (a thread id alone included) it has neither header.
C20_ReplyHeadersBothOrNone ==
    (MimeBuilt /\ mpc # "built") =>
        LET hs == locals.mime.headers
            id == args.reply_to_rfc_id
        IN  IF id.some /\ Len(id.v) > 0
              THEN /\ HeaderValues(hs, "In-Reply-To") = <<id.v>>
                   /\ HeaderValues(hs, "References") = <<id.v>>
              ELSE /\ HeaderValues(hs, "In-Reply-To") = <<>>
                   /\ HeaderValues(hs, "References") = <<>>

C20_Witness ==
    /\ mpc = "headed"
    /\ args.reply_to_rfc_id = Some(<<"<", "m", "@", "x", ">">>)
    /\ args.thread_id = Some(<<"T", "1">>)
    /\ HeaderValues(locals.mime.headers, "References") = <<<<"<", "m", "@", "x", ">">>>>

\* C29: a request that raises while the handle for its key is being created
\* (in the acquisition or in build) stores nothing: the key has no entry, the
\* other entries are as they were, every entry of the cache is a handle built
\* for its key, and a later request for a key without entry goes on to build.
C29_FailedBuildStoresNothing ==
    /\ [](\A k \in DOMAIN services :
             services[k] \in DOMAIN handles /\ handles[services[k]].key = k)
    /\ [][\A t \in Sites :
            /\ (pc[t] \notin {"idle", "done", "failed"} /\ pc'[t] = "failed"
                  /\ key[t] # "") =>
                   (services' = services /\ key[t] \notin DOMAIN services')
            /\ (pc[t] = "build" /\ key[t] \notin DOMAIN services
                  /\ pc'[t] # "build") => pc'[t] = "creds"]_vars

\* a build failed, and a later request was given a handle built for its key
C29_Witness ==
    \E t \in Sites :
        /\ faulted
        /\ calls = 2
        /\ acquireCalls = 1
        /\ pc[t] = "done"
        /\ key[t] # ""
        /\ result[t] \in DOMAIN handles
        /\ Len(handles) = 1

\* C30: a call of get_credentials that loaded a valid credential returns it
\* at once: no refresh, no consent flow, no write, the token file as it was;
\* and a read of factory.credentials that finds the held credential valid
\* returns it without calling get_credentials.
C30_ValidLoadLeavesFileUnchanged ==
    [][\A t \in Sites :
          /\ (pc[t] = "gc_branch" /\ lcreds[t] # 0 /\ pc'[t] # "gc_branch"
                /\ obj[lcreds[t]].token # 0 /\ obj[lcreds[t]].expiry > clock) =>
                 /\ pc'[t] = "gc_ret"
                 /\ did'[t] = "none"
                 /\ obj' = obj
                 /\ nextTok' = nextTok
                 /\ tokenFile' = tokenFile
                 /\ ioWrites' = ioWrites
          /\ (pc[t] = "gc_ret" /\ did[t] = "none" /\ pc'[t] # "gc_ret") =>
                 /\ creds' = lcreds[t]
                 /\ tokenFile' = tokenFile
                 /\ ioWrites' = ioWrites
          /\ (pc[t] = "creds" /\ creds # 0 /\ pc'[t] # "creds"
                /\ obj[creds].token # 0 /\ obj[creds].expiry > clock) =>
                 /\ pc'[t] = "creds_ret"
                 /\ acquireCalls' = acquireCalls
                 /\ creds' = creds]_vars

\* a valid persisted credential was loaded and is about to be returned, the
\* file never written
C30_Witness ==
    \E t \in Sites :
        /\ pc[t] = "gc_ret"
        /\ did[t] = "none"
        /\ ioWrites = 0
        /\ tokenFile.kind = "record"
        /\ tokenFile.token = obj[lcreds[t]].token
        /\ obj[lcreds[t]].expiry > clock

\* C21: _parse_date never raises: for every Date header, missing, empty or
\* unparseable ones included, it returns an aware instant at UTC offset 0,
\* the converted date when the header parses and converts and the current
\* instant otherwise.
C21_ParseDateNeverRaises ==
    /\ mpc # "raised"
    /\ mpc = "returned" =>
         LET h == args.date
             utc == h.wall - (IF h.aware THEN h.offset ELSE args.local)
         IN  /\ returned.raised = ""
             /\ returned.value.aware
             /\ returned.value.offset = 0
             /\ returned.value.wall =
                  IF h.kind = "date" /\ utc >= 0 /\ utc <= MaxInstant
                    THEN utc ELSE args.now

\* a message without Date header got the current instant
C21_Witness ==
    /\ mpc = "returned"
    /\ args.date.kind = "missing"
    /\ args.now = 1
    /\ returned = Value([wall |-> 1, aware |-> TRUE, offset |-> 0])

\* ----------------------------------------------------------------------
\* lib/docs_client.py: _extract_text

AllParagraphs(content) ==
    \A i \in DOMAIN content : content[i].kind = "paragraph"

\* the text runs of a list of paragraphs, in document order
RunsInOrder(content) ==
    SelectSeq(JoinParts([i \in DOMAIN content |-> content[i].elements]),
              LAMBDA pe : pe.textRun)

RunContent(pe) == IF pe.content.some THEN pe.content.v ELSE <<>>

\* C22: for a document whose content nodes are all paragraphs, _extract_text
\* appends the content of every text run, untouched and in document order,
\* and returns their concatenation with no separator.
C22_ParagraphsConcatenated ==
    (mpc = "returned" /\ AllParagraphs(args.content)) =>
        LET runs == RunsInOrder(args.content)
            contents == [i \in DOMAIN runs |-> RunContent(runs[i])]
        IN  /\ locals.parts = contents
            /\ returned = Value(JoinParts(contents))

C22_Witness ==
    /\ mpc = "returned"
    /\ args.content = <<ParaMixed, ParaBlank, ParaA>>
    /\ returned = Value(<<32, 98, 10, 32, 10, 97>>)

NonBlank(text) == \E i \in DOMAIN text : text[i] \notin Whitespace

\* the fragments a table or a table of contents contributes: the flattened
\* text of each cell in row-major order (of the whole block for a table of
\* contents), kept whole exactly when it is not blank
BlockFragments(element) ==
    LET texts == IF element.kind = "table"
                   THEN LET cells == JoinParts(element.tableRows)
                        IN  [i \in DOMAIN cells |-> ExtractText(cells[i])]
                   ELSE <<ExtractText(element.content)>>
    IN  SelectSeq(texts, NonBlank)

AllBlocks(content) ==
    \A i \in DOMAIN content : content[i].kind \in {"table", "tableOfContents"}

\* C23: the flattened text of a table cell or of a table of contents is
\* appended as one fragment exactly when it is non-blank after trimming;
\* the kept fragments appear whole, in row-major order.  Cell contents are
\* documents themselves, so this covers every nesting depth.
C23_BlankCellsDropped ==
    (mpc = "returned" /\ AllBlocks(args.content)) =>
        LET blocks == [i \in DOMAIN args.content |->
                         BlockFragments(args.content[i])]
        IN  /\ locals.parts = JoinParts(blocks)
            /\ returned = Value(JoinParts(JoinParts(blocks)))

C23_Witness ==
    /\ mpc = "returned"
    /\ args.content = <<Table(<< <<(<<ParaBlank>>)>>, <<(<<ParaMixed>>)>> >>)>>
    /\ locals.parts = <<(<<32, 98, 10>>)>>

Recognized(element) ==
    element.kind \in {"paragraph", "table", "tableOfContents"}

\* the document with every unrecognized node removed, at every depth
RECURSIVE Prune(_)
Prune(content) ==
    LET kept == SelectSeq(content, Recognized)
    IN  [i \in DOMAIN kept |->
           IF kept[i].kind = "table"
             THEN Table([r \in DOMAIN kept[i].tableRows |->
                           [c \in DOMAIN kept[i].tableRows[r] |->
                              Prune(kept[i].tableRows[r][c])]])
           ELSE IF kept[i].kind = "tableOfContents"
             THEN TableOfContents(Prune(kept[i].content))
           ELSE kept[i]]

\* C24: a content node of an unrecognized kind emits no fragment and raises
\* nothing: _extract_text returns the text of the document with all
\* unrecognized nodes removed.
C24_UnrecognizedNodesIgnored ==
    mpc = "returned" =>
        /\ returned.raised = ""
        /\ returned.value = ExtractText(Prune(args.content))

C24_Witness ==
    /\ mpc = "returned"
    /\ args.content = <<Table(<< <<(<<SectionBreak, ParaA>>)>> >>)>>
    /\ returned = Value(<<97>>)

\* ----------------------------------------------------------------------
\* lib/slides_client.py: _extract_slide_text, _extract_notes_text

\* the runs of a list of shapes in order, each trimmed, empty ones dropped
TrimmedRuns(shapes) ==
    LET runs == JoinParts([i \in DOMAIN shapes |-> shapes[i].textElements])
        trimmed == [i \in DOMAIN runs |->
                      Strip(IF runs[i].some THEN runs[i].v ELSE <<>>)]
    IN  SelectSeq(trimmed, LAMBDA t : t # <<>>)

BodyShapes(page) ==
    SelectSeq(NotesPageElements(page),
              LAMBDA e : e.shape /\ e.placeholder = "BODY")

OwnShapes(page) == SelectSeq(page.pageElements, LAMBDA e : e.shape)

\* C25: the notes of a slide are the runs of the notes-page shapes whose
\* placeholder type is BODY, each trimmed, empty runs dropped, joined by a
\* single space in order, and nothing else; the slide text is the slide's
\* own runs joined by the same rule.
C25_NotesOnlyFromBody ==
    mpc = "returned" =>
        /\ returned.raised = ""
        /\ returned.value.notes = JoinSpace(TrimmedRuns(BodyShapes(args.page)))
        /\ returned.value.text_content =
               JoinSpace(TrimmedRuns(OwnShapes(args.page)))

C25_Witness ==
    /\ mpc = "returned"
    /\ args.page.pageElements = <<>>
    /\ args.page.notes =
           Some(<<Shape("SLIDE_IMAGE", <<Some(<<97>>)>>),
                  Shape("BODY", <<Some(<<32, 98, 32>>)>>)>>)
    /\ returned = Value([text_content |-> <<>>, notes |-> <<98>>])

\* ----------------------------------------------------------------------
\* Resource parsers

\* the entity's identity field
IdentityOf(resource, entity) ==
    CASE resource = "message" -> entity.message_id
      [] resource = "document" -> entity.doc_id
      [] resource = "presentation" -> entity.presentation_id
      [] resource = "task" -> entity.task_id
      [] resource = "tasklist" -> entity.list_id
      [] resource = "file" -> entity.file_id
      [] resource = "event" -> entity.event_id
      [] resource = "note" -> entity.name
      [] resource = "space" -> entity.name
      [] resource = "label" -> entity.label_id
      [] resource = "contact" -> entity.resource_name

\* C26: for every resource parser, a raw response that lacks the resource's
\* identity field makes the parse fail, and no parser returns an entity
\* with a defaulted or empty identity.
C26_MissingIdentityFails ==
    mpc = "returned" =>
        /\ IdentityKey(args.resource) \notin DOMAIN args.raw =>
               returned.raised # ""
        /\ returned.raised = "" =>
               IdentityOf(args.resource, returned.value) # ""

\* C27: for every resource parser, a raw response that carries the
\* resource's id parses without raising whatever other fields it omits and
\* whatever unknown field it carries: the id is the only field whose
\* absence makes a parse fail.
C27_OnlyIdentityRequired ==
    (mpc = "returned" /\ IdentityKey(args.resource) \in DOMAIN args.raw) =>
        returned.raised = ""

\* ----------------------------------------------------------------------
\* lib/keep_client.py: KeepClient

\* C28: in every KeepClient operation a transport fault with status 403
\* reaches the caller as the Workspace-only RuntimeError and never as the
\* raw HttpError, a fault with any other status reaches the caller
\* unchanged, and when a fault occurs nothing is returned or logged as
\* created or deleted and the notes are as before.
C28_ForbiddenBecomesWorkspaceError ==
    (mpc \in {"returned", "raised"} /\ locals.exc # NoFault) =>
        /\ mpc = "raised"
        /\ returned = IF locals.exc.type = "HttpError" /\ locals.exc.status = 403
                        THEN [raised |-> "RuntimeError", value |-> WorkspaceError]
                        ELSE [raised |-> locals.exc.type, value |-> locals.exc]
        /\ locals.log = <<>>
        /\ locals.notes = args.notes

C28_Witness ==
    /\ mpc = "raised"
    /\ args.op = "delete_note"
    /\ args.name \in DOMAIN args.notes
    /\ locals.exc = HttpError(403)
    /\ returned.raised = "RuntimeError"
    /\ returned.value.message = "_WORKSPACE_ERROR"
    /\ locals.notes = args.notes

====
